---- MODULE Spec2Model ----
(***************************************************************************)
(* Protocol-Events-Adapters: the buffered ingestion pipeline               *)
(* (DataIngestionService), the pool discovery and subscription state of    *)
(* ProtocolEventListener, and the event normalization functions.           *)
(*                                                                         *)
(* The program runs on a single-threaded event loop: a handler runs        *)
(* without interruption up to its next await that waits for I/O, so one    *)
(* action of the model is one such run.                                    *)
(***************************************************************************)
EXTENDS Integers, Sequences, FiniteSets, TLC

(***************************************************************************)
(* Bounds of the model.                                                    *)
(***************************************************************************)
MaxEvents == 3          \* StandardizedEvents that arrive after start()
MaxFactoryEvents == 2   \* FactoryEvents that arrive after start()
MaxTimerFires == 2      \* firings of the periodic flush timer after start()
MaxTopUp == 2           \* events that arrive in a buffer that is nearly full
MaxTopUpTimerFires == 1 \* firings of the flush timer while a buffer is nearly full
MaxFailures == 2        \* storage writes that fail
MaxStartCalls == 2      \* calls of ProtocolEventListener.start()
MaxStopCalls == 1       \* calls of ProtocolEventListener.stop()
MaxFactoryDeliveries == 1 \* pool creation logs the chain delivers
MaxRawDeliveries == 1   \* pool logs the chain delivers
MaxNormalizations == 2  \* deliveries of the raw log to its handler
MaxClock == 3           \* values of Date.now()
MaxLifecycleEvents == 1 \* events of each kind that arrive at a service started from scratch
MaxServiceStartCalls == 2 \* calls of DataIngestionService.start()
MaxLiveEvents == 2      \* StandardizedEvents that arrive while the timer keeps firing
MaxLiveFactoryEvents == 1 \* FactoryEvents that arrive while the timer keeps firing
MaxResolutions == 3     \* calls of getTokenInfo, one after the other
MaxServiceStopCalls == 2  \* calls of DataIngestionService.stop()
MaxRepeatedStopCalls == 2 \* calls of ProtocolEventListener.stop() on one listener, repeated
MaxConnectCalls == 3      \* calls of ClickHouseService.connect(), one after the other

(***************************************************************************)
(* Program constants.                                                      *)
(***************************************************************************)
batchSize == 100        \* DataIngestionService.batchSize
maxRetries == 5         \* ClickHouseService.connect(): const maxRetries = 5

VARIABLES
  \* ---- DataIngestionService
  isRunning,            \* this.isRunning
  eventBuffer,          \* this.eventBuffer: sequence of event numbers
  factoryEventBuffer,   \* this.factoryEventBuffer
  flushTimer,           \* this.flushTimer is set (the interval is active)
  listenersUp,          \* the two chain listeners have been started and not stopped
  stopPc,               \* position of a stop() call
  stopPcB,              \* position of a stop() call made while another is in progress
  evFlights,            \* flushEvents() calls that are writing their batch
  facFlights,           \* flushFactoryEvents() calls that are writing their batch
  \* ---- ClickHouseService (storage gateway)
  isConnected,          \* this.isConnected
  inserted,             \* the events whose insertEvent call succeeded
  insertedFactory,      \* the events whose insertFactoryEvent call succeeded
  \* ---- environment and history
  scenario,             \* which prefix of the run Init stands for
  evSeen,               \* events handed to handleStandardizedEvent so far
  facSeen,              \* events handed to handleFactoryEvent so far
  timerFires,           \* firings of the flush timer so far
  failures,             \* storage writes that failed so far
  pendingRetry,         \* batches put back by a failed flush and not flushed again yet
  startPc,              \* position of a start() call of the service
  svcStartCalls,        \* start() calls on the service so far
  svcStopCalls,         \* stop() calls on the service so far
  lastCall,             \* the last start() or stop() call on the service and its outcome
  notified,             \* per notification emitted since Init, how often it was emitted
  \* ---- ProtocolEventListener
  config,               \* this.config: chainId and protocols
  isListening,          \* this.isListening
  factoryListeners,     \* this.factoryListeners: Map protocol -> contract
  poolListeners,        \* this.poolListeners: Map pool address -> contract
  knownPools,           \* this.knownPools: Map pool address -> PoolInfo
  tokenCache,           \* the keys of this.tokenCache
  factorySubs,          \* contracts with a pool creation handler registered
  poolSubs,             \* contracts with pool event handlers registered
  startTasks,           \* the position of each start() call
  discoveries,          \* startPoolListening() calls of factory events, in progress
  \* ---- environment and history of the listener
  factoryDeliveries,    \* pool creation logs delivered so far
  rawDeliveries,        \* pool logs delivered so far
  stopCalls,            \* stop() calls on the listener so far
  chainReadsOk,         \* the RPC endpoint answers the token contract reads
  lastRaw,              \* the last pool log and the StandardizedEvents emitted for it
  registrations,        \* per pool address, the number of knownPools.set calls
  stopReturned,         \* stop() has torn the listener down and start() was not called since
  emittedAfterStop,     \* an event was emitted while stopReturned
  factoryNotes,         \* per announced pool, the deliveries of its creation log and the
                        \* 'factoryEvent' notifications emitted for them
  \* ---- normalization
  rawEvent,             \* the raw pool log
  now,                  \* Date.now()
  emitted,              \* the StandardizedEvents emitted for rawEvent
  rows,                 \* the rows insertEvent has handed to the storage client
  \* ---- token resolution
  resolutions,          \* the getTokenInfo calls made one after the other, with their results
  \* ---- ClickHouseService.connect()
  connectTask,          \* the position of a connect() call, its retryCount and its pings
  connectLog            \* the connect() calls that have ended, with their outcome

ingestVars == <<isRunning, eventBuffer, factoryEventBuffer, flushTimer, listenersUp,
                stopPc, stopPcB, evFlights, facFlights, isConnected, inserted, insertedFactory,
                scenario, evSeen, facSeen, timerFires, failures, pendingRetry,
                startPc, svcStartCalls, svcStopCalls, lastCall, notified>>

\* the bookkeeping of the start() and stop() calls on the service
callVars == <<startPc, svcStartCalls, svcStopCalls, lastCall>>

listenerVars == <<config, isListening, factoryListeners, poolListeners, knownPools,
                  tokenCache, factorySubs, poolSubs, startTasks,
                  discoveries, factoryDeliveries, rawDeliveries, stopCalls, chainReadsOk,
                  lastRaw, registrations, stopReturned, emittedAfterStop,
                  factoryNotes>>

normVars == <<rawEvent, now, emitted, rows>>

tokenVars == <<resolutions>>

gatewayVars == <<connectTask, connectLog>>

vars == <<ingestVars, listenerVars, normVars, tokenVars, gatewayVars>>

(***************************************************************************)
(* Sequences.                                                              *)
(***************************************************************************)
Range(s) == {s[i] : i \in DOMAIN s}

IsPrefix(p, s) == Len(p) <= Len(s) /\ SubSeq(s, 1, Len(p)) = p

Iota(n) == [i \in 1..n |-> i]

(***************************************************************************)
(* Init stands for a running service (start() has completed: storage is    *)
(* connected, the listeners are started, the timer is active).  In the     *)
(* scenario "empty" nothing has arrived yet; in the scenarios "events" and *)
(* "factory" PreFill events have arrived in one buffer, with no timer      *)
(* firing in between, so that this buffer is one event short of the batch  *)
(* size.  In the scenario "fresh" the service has been constructed and     *)
(* start() has not been called yet.  The scenario "live" is "empty" with   *)
(* a timer that goes on firing: its firings are not counted.               *)
(***************************************************************************)
PreFill == batchSize - 1

\* how many events may arrive, and how often the timer may fire, in a scenario
EventCap == IF scenario = "empty" THEN MaxEvents
            ELSE IF scenario = "live" THEN MaxLiveEvents
            ELSE IF scenario = "events" THEN PreFill + MaxTopUp
            ELSE IF scenario = "fresh" THEN MaxLifecycleEvents ELSE 0

FactoryEventCap == IF scenario = "empty" THEN MaxFactoryEvents
                   ELSE IF scenario = "live" THEN MaxLiveFactoryEvents
                   ELSE IF scenario = "factory" THEN PreFill + MaxTopUp
                   ELSE IF scenario = "fresh" THEN MaxLifecycleEvents ELSE 0

TimerCap == IF scenario = "empty" THEN MaxTimerFires ELSE MaxTopUpTimerFires

\* the count of the timer firings after one more
Fired(n) == IF scenario = "live" THEN n ELSE n + 1

EvBase == IF scenario = "events" THEN PreFill ELSE 0

FacBase == IF scenario = "factory" THEN PreFill ELSE 0

\* how many start() and stop() calls the service receives in a scenario
StartCallCap == IF scenario = "fresh" THEN MaxServiceStartCalls ELSE 0

StopCallCap == IF scenario = "fresh" THEN MaxServiceStopCalls
               ELSE IF scenario = "listener" THEN 0 ELSE 1

\* mutant of Emit: the notification is emitted twice
EmitTwice(n, key) ==
  [k \in DOMAIN n \cup {key} |->
     IF k = key THEN (IF key \in DOMAIN n THEN n[key] + 2 ELSE 2) ELSE n[k]]

\* EventEmitter.emit: one more notification `key`
Emit(n, key) ==
  [k \in DOMAIN n \cup {key} |->
     IF k = key THEN (IF key \in DOMAIN n THEN n[key] + 1 ELSE 1) ELSE n[k]]

NoCall == [op |-> "none", result |-> "none"]

IngestInit(scenarios) ==
  /\ scenario \in scenarios
  /\ isRunning = (scenario \notin {"fresh", "listener"})
  /\ isConnected = isRunning
  /\ flushTimer = isRunning
  /\ listenersUp = isRunning
  /\ stopPc = "idle"
  /\ stopPcB = "idle"
  /\ eventBuffer = Iota(EvBase)
  /\ factoryEventBuffer = Iota(FacBase)
  /\ evSeen = EvBase
  /\ facSeen = FacBase
  /\ evFlights = {}
  /\ facFlights = {}
  /\ inserted = {}
  /\ insertedFactory = {}
  /\ timerFires = 0
  /\ failures = 0
  /\ pendingRetry = {}
  /\ startPc = "idle"
  /\ svcStartCalls = 0
  /\ svcStopCalls = 0
  /\ lastCall = NoCall
  /\ notified = [k \in {} |-> 0]

(***************************************************************************)
(* flushEvents / flushFactoryEvents.                                       *)
(***************************************************************************)
\* mutant of FlushDue: the threshold is compared with > instead of >=
FlushDueLate(len) == len > batchSize

\* line 269 / 294: the size threshold of a buffer
FlushDue(len) == len >= batchSize

\* mutant of Requeue: the catch block does not put the batch back
RequeueLost(batch, live) == live

\* line 353 / 384: this.eventBuffer.unshift(...eventsToFlush)
Requeue(batch, live) == batch \o live

\* A flush that is writing: batch is eventsToFlush, done the number of writes that
\* have succeeded; the write of batch[done + 1] has been issued and is awaited.
Flight(batch, by) == [batch |-> batch, done |-> 0, by |-> by]

\* flushEvents() called by `by` when the live buffer is buf, up to its first await.
\* With an empty buffer it returns at once.  Otherwise it takes the snapshot, resets
\* the live buffer and calls insertEvent for the first event, which throws at once
\* when the gateway is not connected (the batch is then put back).
FlushEvents(buf, by) ==
  IF buf = <<>>
  THEN /\ eventBuffer' = buf
       /\ evFlights' = evFlights
  ELSE IF isConnected
       THEN /\ eventBuffer' = <<>>
            /\ evFlights' = evFlights \cup {Flight(buf, by)}
       ELSE /\ eventBuffer' = Requeue(buf, <<>>)
            /\ evFlights' = evFlights

FlushFactoryEvents(buf, by) ==
  IF buf = <<>>
  THEN /\ factoryEventBuffer' = buf
       /\ facFlights' = facFlights
  ELSE IF isConnected
       THEN /\ factoryEventBuffer' = <<>>
            /\ facFlights' = facFlights \cup {Flight(buf, by)}
       ELSE /\ factoryEventBuffer' = Requeue(buf, <<>>)
            /\ facFlights' = facFlights

\* History: the batches a failed flush has put back, until the next snapshot of
\* their buffer (the next flush attempt) is taken.
Snapshot(kind, buf, pending) ==
  IF buf = <<>> THEN pending
  ELSE {p \in pending : p[1] # kind}
         \cup (IF isConnected THEN {} ELSE {<<kind, buf>>})

PutBack(kind, batch, pending) == pending \cup {<<kind, batch>>}

(***************************************************************************)
(* Event arrival.                                                          *)
(***************************************************************************)
\* handleStandardizedEvent: push, emit 'event', flush when the buffer is full.
handleStandardizedEvent ==
  /\ listenersUp
  /\ evSeen < EventCap
  /\ evSeen' = evSeen + 1
  /\ notified' = Emit(notified, <<"event", evSeen + 1>>)
  /\ LET buf == Append(eventBuffer, evSeen + 1)
     IN IF FlushDue(Len(buf))
        THEN /\ FlushEvents(buf, "size")
             /\ pendingRetry' = Snapshot("events", buf, pendingRetry)
        ELSE /\ eventBuffer' = buf
             /\ UNCHANGED <<evFlights, pendingRetry>>
  /\ UNCHANGED <<isRunning, factoryEventBuffer, flushTimer, listenersUp, stopPc, stopPcB,
                 facFlights, isConnected, inserted, insertedFactory, scenario,
                 facSeen, timerFires, failures>>
  /\ UNCHANGED <<callVars, listenerVars, normVars, tokenVars, gatewayVars>>

\* handleFactoryEvent: push, emit 'factoryEvent', flush when the buffer is full.
handleFactoryEvent ==
  /\ listenersUp
  /\ facSeen < FactoryEventCap
  /\ facSeen' = facSeen + 1
  /\ notified' = Emit(notified, <<"factoryEvent", facSeen + 1>>)
  /\ LET buf == Append(factoryEventBuffer, facSeen + 1)
     IN IF FlushDue(Len(buf))
        THEN /\ FlushFactoryEvents(buf, "size")
             /\ pendingRetry' = Snapshot("factory", buf, pendingRetry)
        ELSE /\ factoryEventBuffer' = buf
             /\ UNCHANGED <<facFlights, pendingRetry>>
  /\ UNCHANGED <<isRunning, eventBuffer, flushTimer, listenersUp, stopPc, stopPcB, evFlights,
                 isConnected, inserted, insertedFactory, scenario, evSeen,
                 timerFires, failures>>
  /\ UNCHANGED <<callVars, listenerVars, normVars, tokenVars, gatewayVars>>

(***************************************************************************)
(* flushBuffers() = flushEvents() and flushFactoryEvents(), called by the  *)
(* periodic timer and by stop().                                           *)
(***************************************************************************)
\* mutant of flushBuffers: the call flushes nothing
flushNothing(by) ==
  UNCHANGED <<eventBuffer, evFlights, factoryEventBuffer, facFlights, pendingRetry>>

flushBuffers(by) ==
  /\ FlushEvents(eventBuffer, by)
  /\ FlushFactoryEvents(factoryEventBuffer, by)
  /\ pendingRetry' = Snapshot("factory", factoryEventBuffer,
                              Snapshot("events", eventBuffer, pendingRetry))

\* The timer set by startBatchProcessing fires.  A firing that finds both buffers
\* empty changes nothing and is left out.
TimerFire ==
  /\ flushTimer
  /\ timerFires < TimerCap
  /\ eventBuffer # <<>> \/ factoryEventBuffer # <<>>
  /\ timerFires' = Fired(timerFires)
  /\ flushBuffers("timer")
  /\ UNCHANGED <<isRunning, flushTimer, listenersUp, stopPc, stopPcB, isConnected, inserted,
                 insertedFactory, scenario, evSeen, facSeen, failures>>
  /\ UNCHANGED <<callVars, notified, listenerVars, normVars, tokenVars, gatewayVars>>

(***************************************************************************)
(* Completion of the storage write a flush is awaiting.                    *)
(***************************************************************************)
\* The awaited insertEvent succeeded.  The loop goes on to the next event: the
\* flush is over after the last one; otherwise insertEvent is called again, and it
\* throws at once when the gateway has been disconnected in the meantime, so that
\* the catch block puts the whole batch back.
EventWriteOk(f) ==
  /\ f \in evFlights
  /\ inserted' = inserted \cup {f.batch[f.done + 1]}
  /\ IF f.done + 1 = Len(f.batch)
     THEN /\ evFlights' = evFlights \ {f}
          /\ UNCHANGED <<eventBuffer, pendingRetry>>
     ELSE IF isConnected
          THEN /\ evFlights' = (evFlights \ {f}) \cup {[f EXCEPT !.done = f.done + 1]}
               /\ UNCHANGED <<eventBuffer, pendingRetry>>
          ELSE /\ evFlights' = evFlights \ {f}
               /\ eventBuffer' = Requeue(f.batch, eventBuffer)
               /\ pendingRetry' = PutBack("events", f.batch, pendingRetry)
  /\ UNCHANGED <<isRunning, factoryEventBuffer, flushTimer, listenersUp, stopPc, stopPcB,
                 facFlights, isConnected, insertedFactory, scenario, evSeen, facSeen,
                 timerFires, failures>>
  /\ UNCHANGED <<callVars, notified, listenerVars, normVars, tokenVars, gatewayVars>>

\* The awaited insertEvent failed: the catch block puts the whole batch back.
EventWriteFail(f) ==
  /\ f \in evFlights
  /\ failures < MaxFailures
  /\ failures' = failures + 1
  /\ evFlights' = evFlights \ {f}
  /\ eventBuffer' = Requeue(f.batch, eventBuffer)
  /\ pendingRetry' = PutBack("events", f.batch, pendingRetry)
  /\ UNCHANGED <<isRunning, factoryEventBuffer, flushTimer, listenersUp, stopPc, stopPcB,
                 facFlights, isConnected, inserted, insertedFactory, scenario,
                 evSeen, facSeen, timerFires>>
  /\ UNCHANGED <<callVars, notified, listenerVars, normVars, tokenVars, gatewayVars>>

FactoryWriteOk(f) ==
  /\ f \in facFlights
  /\ insertedFactory' = insertedFactory \cup {f.batch[f.done + 1]}
  /\ IF f.done + 1 = Len(f.batch)
     THEN /\ facFlights' = facFlights \ {f}
          /\ UNCHANGED <<factoryEventBuffer, pendingRetry>>
     ELSE IF isConnected
          THEN /\ facFlights' = (facFlights \ {f}) \cup {[f EXCEPT !.done = f.done + 1]}
               /\ UNCHANGED <<factoryEventBuffer, pendingRetry>>
          ELSE /\ facFlights' = facFlights \ {f}
               /\ factoryEventBuffer' = Requeue(f.batch, factoryEventBuffer)
               /\ pendingRetry' = PutBack("factory", f.batch, pendingRetry)
  /\ UNCHANGED <<isRunning, eventBuffer, flushTimer, listenersUp, stopPc, stopPcB, evFlights,
                 isConnected, inserted, scenario, evSeen, facSeen, timerFires,
                 failures>>
  /\ UNCHANGED <<callVars, notified, listenerVars, normVars, tokenVars, gatewayVars>>

FactoryWriteFail(f) ==
  /\ f \in facFlights
  /\ failures < MaxFailures
  /\ failures' = failures + 1
  /\ facFlights' = facFlights \ {f}
  /\ factoryEventBuffer' = Requeue(f.batch, factoryEventBuffer)
  /\ pendingRetry' = PutBack("factory", f.batch, pendingRetry)
  /\ UNCHANGED <<isRunning, eventBuffer, flushTimer, listenersUp, stopPc, stopPcB, evFlights,
                 isConnected, inserted, insertedFactory, scenario, evSeen, facSeen,
                 timerFires>>
  /\ UNCHANGED <<callVars, notified, listenerVars, normVars, tokenVars, gatewayVars>>

(***************************************************************************)
(* DataIngestionService.stop().                                            *)
(***************************************************************************)
\* mutant of AlreadyRunning: the guard of start() never throws
NeverAlreadyRunning(running) == FALSE

\* line 93 and EventListener.ts line 84: the guard of start()
AlreadyRunning(running) == running

\* mutant of NotRunning: the guard of stop() never returns early
NeverNotRunning(running) == FALSE

\* line 138 and EventListener.ts line 112: the guard of stop()
NotRunning(running) == ~running

\* lines 138-154: a stop() call while no other stop() call is in progress.  On a
\* service that is not running it returns at once; otherwise both listeners are
\* stopped.
StopListeners ==
  /\ stopPc \in {"idle", "done"}
  /\ UNCHANGED stopPcB
  /\ svcStopCalls < StopCallCap
  /\ svcStopCalls' = svcStopCalls + 1
  /\ IF NotRunning(isRunning)
     THEN /\ lastCall' = [op |-> "stop", result |-> "returned"]
          /\ UNCHANGED <<listenersUp, stopPc>>
     ELSE /\ lastCall' = [op |-> "stop", result |-> "pending"]
          /\ listenersUp' = FALSE
          /\ stopPc' = "flush"
  /\ UNCHANGED <<isRunning, eventBuffer, factoryEventBuffer, flushTimer, evFlights,
                 facFlights, isConnected, inserted, insertedFactory, scenario,
                 evSeen, facSeen, timerFires, failures, pendingRetry>>
  /\ UNCHANGED <<startPc, svcStartCalls, notified, listenerVars, normVars, tokenVars, gatewayVars>>

\* line 157: await this.flushBuffers(), up to its await
StopFlush ==
  /\ stopPc = "flush"
  /\ UNCHANGED stopPcB
  /\ flushBuffers("stop")
  /\ stopPc' = "flushing"
  /\ UNCHANGED <<isRunning, flushTimer, listenersUp, isConnected, inserted,
                 insertedFactory, scenario, evSeen, facSeen, timerFires, failures>>
  /\ UNCHANGED <<callVars, notified, listenerVars, normVars, tokenVars, gatewayVars>>

\* mutant of clearInterval: the interval stays active
clearIntervalNot(timer) == timer

\* lines 160-163: clearInterval(this.flushTimer); this.flushTimer = null
clearInterval(timer) == FALSE

\* lines 160-166: the final flush is over; the timer is cleared and the gateway's
\* disconnect() is called, which awaits client.close()
StopClearTimer ==
  /\ stopPc = "flushing"
  /\ UNCHANGED stopPcB
  /\ \A f \in evFlights \cup facFlights : f.by # "stop"
  /\ flushTimer' = clearInterval(flushTimer)
  /\ stopPc' = "closing"
  /\ UNCHANGED <<isRunning, eventBuffer, factoryEventBuffer, listenersUp, evFlights,
                 facFlights, isConnected, inserted, insertedFactory, scenario,
                 evSeen, facSeen, timerFires, failures, pendingRetry>>
  /\ UNCHANGED <<callVars, notified, listenerVars, normVars, tokenVars, gatewayVars>>

\* ClickHouseService.disconnect() line 93, then lines 168-172 of stop()
StopDisconnect ==
  /\ stopPc = "closing"
  /\ UNCHANGED stopPcB
  /\ isConnected' = FALSE
  /\ isRunning' = FALSE
  /\ stopPc' = "done"
  /\ notified' = Emit(notified, <<"stopped", 0>>)
  /\ lastCall' = [op |-> "stop", result |-> "stopped"]
  /\ UNCHANGED <<eventBuffer, factoryEventBuffer, flushTimer, listenersUp, evFlights,
                 facFlights, inserted, insertedFactory, scenario, evSeen, facSeen,
                 timerFires, failures, pendingRetry>>
  /\ UNCHANGED <<startPc, svcStartCalls, svcStopCalls, listenerVars, normVars, tokenVars, gatewayVars>>

(***************************************************************************)
(* A stop() call made while another stop() call is in progress: the first  *)
(* call has set the listener fields to null and isRunning is still true.   *)
(***************************************************************************)
\* lines 138-154: the guard passes and there is no listener left to stop
StopAgain ==
  /\ stopPc \in {"flush", "flushing", "closing"}
  /\ stopPcB = "idle"
  /\ svcStopCalls < StopCallCap
  /\ svcStopCalls' = svcStopCalls + 1
  /\ IF NotRunning(isRunning)
     THEN /\ lastCall' = [op |-> "stop", result |-> "returned"]
          /\ UNCHANGED stopPcB
     ELSE /\ lastCall' = [op |-> "stop", result |-> "pending"]
          /\ stopPcB' = "flush"
  /\ UNCHANGED <<isRunning, eventBuffer, factoryEventBuffer, flushTimer, listenersUp,
                 stopPc, evFlights, facFlights, isConnected, inserted, insertedFactory,
                 scenario, evSeen, facSeen, timerFires, failures, pendingRetry>>
  /\ UNCHANGED <<startPc, svcStartCalls, notified, listenerVars, normVars, tokenVars, gatewayVars>>

\* line 157: await this.flushBuffers(), up to its await
StopAgainFlush ==
  /\ stopPcB = "flush"
  /\ flushBuffers("stop again")
  /\ stopPcB' = "flushing"
  /\ UNCHANGED <<isRunning, flushTimer, listenersUp, stopPc, isConnected, inserted,
                 insertedFactory, scenario, evSeen, facSeen, timerFires, failures>>
  /\ UNCHANGED <<callVars, notified, listenerVars, normVars, tokenVars, gatewayVars>>

\* lines 160-166: the flush is over; the timer is cleared and disconnect() is called
StopAgainClearTimer ==
  /\ stopPcB = "flushing"
  /\ \A f \in evFlights \cup facFlights : f.by # "stop again"
  /\ flushTimer' = clearInterval(flushTimer)
  /\ stopPcB' = "closing"
  /\ UNCHANGED <<isRunning, eventBuffer, factoryEventBuffer, listenersUp, stopPc,
                 evFlights, facFlights, isConnected, inserted, insertedFactory, scenario,
                 evSeen, facSeen, timerFires, failures, pendingRetry>>
  /\ UNCHANGED <<callVars, notified, listenerVars, normVars, tokenVars, gatewayVars>>

\* ClickHouseService.disconnect() line 93, then lines 168-172 of stop()
StopAgainDisconnect ==
  /\ stopPcB = "closing"
  /\ isConnected' = FALSE
  /\ isRunning' = FALSE
  /\ stopPcB' = "done"
  /\ notified' = Emit(notified, <<"stopped", 0>>)
  /\ lastCall' = [op |-> "stop", result |-> "stopped"]
  /\ UNCHANGED <<eventBuffer, factoryEventBuffer, flushTimer, listenersUp, stopPc,
                 evFlights, facFlights, inserted, insertedFactory, scenario, evSeen,
                 facSeen, timerFires, failures, pendingRetry>>
  /\ UNCHANGED <<startPc, svcStartCalls, svcStopCalls, listenerVars, normVars, tokenVars, gatewayVars>>

(***************************************************************************)
(* DataIngestionService.start().  Every caller awaits start() before it    *)
(* calls start() again (run-data-ingestion.ts line 133, test-integration.ts*)
(* line 75), so two start() calls do not overlap; a stop() call may arrive *)
(* while start() is in progress (the SIGINT handler of run-data-ingestion).*)
(***************************************************************************)
\* lines 92-95: the guard; else start() goes on to await connect()
ServiceStart ==
  /\ startPc = "idle"
  /\ svcStartCalls < StartCallCap
  /\ UNCHANGED stopPcB
  /\ svcStartCalls' = svcStartCalls + 1
  /\ IF AlreadyRunning(isRunning)
     THEN /\ lastCall' = [op |-> "start", result |-> "error"]
          /\ UNCHANGED <<startPc, stopPc>>
     ELSE /\ lastCall' = [op |-> "start", result |-> "pending"]
          /\ startPc' = "connect"
          /\ stopPc' = "idle"
  /\ UNCHANGED <<isRunning, eventBuffer, factoryEventBuffer, flushTimer, listenersUp,
                 evFlights, facFlights, isConnected, inserted, insertedFactory,
                 scenario, evSeen, facSeen, timerFires, failures, pendingRetry>>
  /\ UNCHANGED <<svcStopCalls, notified, listenerVars, normVars, tokenVars, gatewayVars>>

\* lines 101-106: connect() and initializeSchema() have answered;
\* startBlockchainListeners() wires the handlers and awaits the start() of the two
\* listeners, which deliver events from now on
StartConnect ==
  /\ startPc = "connect"
  /\ isConnected' = TRUE
  /\ listenersUp' = TRUE
  /\ startPc' = "listeners"
  /\ UNCHANGED <<isRunning, eventBuffer, factoryEventBuffer, flushTimer, stopPc, stopPcB,
                 evFlights, facFlights, inserted, insertedFactory, scenario, evSeen,
                 facSeen, timerFires, failures, pendingRetry>>
  /\ UNCHANGED <<svcStartCalls, svcStopCalls, lastCall, notified, listenerVars,
                 normVars, tokenVars, gatewayVars>>

\* ClickHouseService.connect() lines 76-80 gives up: start() rethrows (lines 117-120)
StartConnectFail ==
  /\ startPc = "connect"
  /\ startPc' = "idle"
  /\ lastCall' = [op |-> "start", result |-> "error"]
  /\ UNCHANGED <<isRunning, eventBuffer, factoryEventBuffer, flushTimer, listenersUp,
                 stopPc, stopPcB, evFlights, facFlights, isConnected, inserted, insertedFactory,
                 scenario, evSeen, facSeen, timerFires, failures, pendingRetry>>
  /\ UNCHANGED <<svcStartCalls, svcStopCalls, notified, listenerVars, normVars, tokenVars, gatewayVars>>

\* initializeSchema() (line 102) fails after connect() has succeeded: start()
\* rethrows (lines 117-120) and the gateway stays connected
StartSchemaFail ==
  /\ startPc = "connect"
  /\ isConnected' = TRUE
  /\ startPc' = "idle"
  /\ lastCall' = [op |-> "start", result |-> "error"]
  /\ UNCHANGED <<isRunning, eventBuffer, factoryEventBuffer, flushTimer, listenersUp,
                 stopPc, stopPcB, evFlights, facFlights, inserted, insertedFactory,
                 scenario, evSeen, facSeen, timerFires, failures, pendingRetry>>
  /\ UNCHANGED <<svcStartCalls, svcStopCalls, notified, listenerVars, normVars, tokenVars, gatewayVars>>

\* mutant of startBatchProcessing: no interval is set
startBatchProcessingNot(timer) == timer

\* startBatchProcessing(), lines 187-191: this.flushTimer = setInterval(...)
startBatchProcessing(timer) == TRUE

\* lines 109-115: the listeners have started; startBatchProcessing() sets the
\* interval, the flag is set and 'started' is emitted
StartFinish ==
  /\ startPc = "listeners"
  /\ flushTimer' = startBatchProcessing(flushTimer)
  /\ isRunning' = TRUE
  /\ startPc' = "idle"
  /\ notified' = Emit(notified, <<"started", 0>>)
  /\ lastCall' = [op |-> "start", result |-> "started"]
  /\ UNCHANGED <<eventBuffer, factoryEventBuffer, listenersUp, stopPc, stopPcB, evFlights,
                 facFlights, isConnected, inserted, insertedFactory, scenario, evSeen,
                 facSeen, timerFires, failures, pendingRetry>>
  /\ UNCHANGED <<svcStartCalls, svcStopCalls, listenerVars, normVars, tokenVars, gatewayVars>>

(***************************************************************************)
(* ProtocolEventListener.                                                  *)
(*                                                                         *)
(* The listener is configured without a wsUrl (EventListenerConfig.wsUrl   *)
(* is optional and the ingestion scripts pass it from the environment), so *)
(* every contract uses this.provider and stop() has no provider to         *)
(* destroy.  An ethers.Contract the listener creates is named after the    *)
(* call that created it; the handlers registered on it are a record in     *)
(* factorySubs or poolSubs.                                                *)
(***************************************************************************)
ProtocolType == {"uniswap-v2", "uniswap-v3", "pancakeswap-v2"}

\* the two listeners DataIngestionService.startBlockchainListeners() creates
EthereumConfig == [chainId |-> 1, protocols |-> <<"uniswap-v2", "uniswap-v3">>]

BscConfig == [chainId |-> 56, protocols |-> <<"pancakeswap-v2">>]

\* a listener configured with a protocol that has no address on its chain
MixedBscConfig == [chainId |-> 56, protocols |-> <<"uniswap-v2", "pancakeswap-v2">>]

\* a listener configured for a chain that is not in CONTRACT_ADDRESSES (Polygon)
UnknownChainConfig == [chainId |-> 137, protocols |-> <<"uniswap-v2">>]

Configs == {EthereumConfig, BscConfig, MixedBscConfig, UnknownChainConfig}

\* the protocols with an entry in CONTRACT_ADDRESSES[chain]
ContractAddresses(chain) ==
  CASE chain = "ethereum" -> {"uniswap-v2", "uniswap-v3", "pancakeswap-v2"}
    [] chain = "bsc" -> {"pancakeswap-v2"}

\* getChainConfig: the switch on the chain id, with its default
getChainConfig(chainId) ==
  CASE chainId = 1 -> ContractAddresses("ethereum")
    [] chainId = 56 -> ContractAddresses("bsc")
    [] OTHER -> ContractAddresses("ethereum")

\* addPopularPools(): the first Uniswap V2 pool and the first PancakeSwap V2 pool of
\* the hardcoded table
popularPools ==
  << [protocol |-> "uniswap-v2", address |-> "0xB4e1"],
     [protocol |-> "pancakeswap-v2", address |-> "0x7213"] >>

\* a pool that is not in the table and is announced by a factory
NewPool == "0xNew"

\* the pools a factory of the protocol announces: a new one, or one of the table
\* again (the same log delivered while the pre-seed is resolving the pool)
PoolsOf(protocol) ==
  {NewPool} \cup {popularPools[i].address :
                    i \in {j \in DOMAIN popularPools : popularPools[j].protocol = protocol}}

\* token0() and token1() of a pool; for the pools of the table getFallbackToken0
\* and getFallbackToken1 hold the same addresses
Token0Of(pool) ==
  CASE pool = "0xB4e1" -> "USDC" [] pool = "0x7213" -> "WBNB" [] OTHER -> "TKN"

Token1Of(pool) ==
  CASE pool = "0xB4e1" -> "WETH" [] pool = "0x7213" -> "BUSD" [] OTHER -> "WETH"

\* null: no token address
NoToken == "null"

\* getFallbackToken0 / getFallbackToken1, lines 1222-1281: the token addresses of
\* the pools of the table, null for any other pool
getFallbackToken0(poolAddress) ==
  CASE poolAddress = "0xB4e1" -> "USDC" [] poolAddress = "0x7213" -> "WBNB"
    [] OTHER -> NoToken

getFallbackToken1(poolAddress) ==
  CASE poolAddress = "0xB4e1" -> "WETH" [] poolAddress = "0x7213" -> "BUSD"
    [] OTHER -> NoToken

\* mutant of getToken0FromPool: a failed read gives null
getToken0FromPoolNoFallback(poolAddress, readOk) ==
  IF readOk THEN Token0Of(poolAddress) ELSE NoToken

\* getToken0FromPool / getToken1FromPool, lines 1175-1209: the answer of the pool's
\* token0() / token1(), or the fallback when the read fails
getToken0FromPool(poolAddress, readOk) ==
  IF readOk THEN Token0Of(poolAddress) ELSE getFallbackToken0(poolAddress)

getToken1FromPool(poolAddress, readOk) ==
  IF readOk THEN Token1Of(poolAddress) ELSE getFallbackToken1(poolAddress)

\* line 1153: if (token0 && token1)
BothTokens(token0, token1) == token0 # NoToken /\ token1 # NoToken

\* the keys of the knownTokens table of getFallbackTokenInfo
knownTokens == {"WETH", "USDC", "WBNB", "BUSD"}

\* getFallbackTokenInfo, for a token of the table
getFallbackTokenInfo(tokenAddress) ==
  CASE tokenAddress = "WETH" ->
         [address |-> tokenAddress, symbol |-> "WETH", decimals |-> 18, name |-> "Wrapped Ether"]
    [] tokenAddress = "USDC" ->
         [address |-> tokenAddress, symbol |-> "USDC", decimals |-> 6, name |-> "USD Coin"]
    [] tokenAddress = "WBNB" ->
         [address |-> tokenAddress, symbol |-> "WBNB", decimals |-> 18, name |-> "Wrapped BNB"]
    [] tokenAddress = "BUSD" ->
         [address |-> tokenAddress, symbol |-> "BUSD", decimals |-> 18, name |-> "BUSD Token"]

\* what symbol(), decimals() and name() of the token contract answer
OnChainTokenInfo(tokenAddress) ==
  IF tokenAddress \in knownTokens THEN getFallbackTokenInfo(tokenAddress)
  ELSE [address |-> tokenAddress, symbol |-> "TKN", decimals |-> 9, name |-> "Token"]

\* mutant of nameCatch: a rejected name() leaves the name empty
nameCatchEmpty(name, nameOk) == IF nameOk THEN name ELSE ""

\* line 943: tokenContract.name().catch(() => 'Unknown')
nameCatch(name, nameOk) == IF nameOk THEN name ELSE "Unknown"

\* lines 940-951: the result when symbol() and decimals() have answered
ChainTokenInfo(tokenAddress, nameOk) ==
  [address |-> tokenAddress,
   symbol |-> OnChainTokenInfo(tokenAddress).symbol,
   decimals |-> OnChainTokenInfo(tokenAddress).decimals,
   name |-> nameCatch(OnChainTokenInfo(tokenAddress).name, nameOk)]

\* mutant of getTokenInfo: the catch block never consults the table
getTokenInfoNoTable(tokenAddress, readOk, nameOk) ==
  IF readOk THEN ChainTokenInfo(tokenAddress, nameOk)
  ELSE [address |-> tokenAddress, symbol |-> "UNKNOWN", decimals |-> 18,
        name |-> "Unknown Token"]

\* getTokenInfo: the chain's answer, else the table, else the default.  readOk:
\* symbol() and decimals() answer (Promise.all is rejected when one of them is);
\* nameOk: name() answers.
getTokenInfo(tokenAddress, readOk, nameOk) ==
  IF readOk THEN ChainTokenInfo(tokenAddress, nameOk)
  ELSE IF tokenAddress \in knownTokens THEN getFallbackTokenInfo(tokenAddress)
  ELSE [address |-> tokenAddress, symbol |-> "UNKNOWN", decimals |-> 18,
        name |-> "Unknown Token"]

\* the write of getTokenInfo to this.tokenCache (fallback path only)
CacheAfter(cache, tokenAddress, readOk) ==
  IF ~readOk /\ tokenAddress \in knownTokens
  THEN cache \cup {tokenAddress} ELSE cache

\* the token addresses getTokenInfo is called with: those of the table and one more
TokenAddresses == knownTokens \cup {"TKN"}

\* one call of getTokenInfo, from its first statement to its return
ResolveToken(tokenAddress, readOk, nameOk) ==
  /\ Len(resolutions) < MaxResolutions
  /\ resolutions' = Append(resolutions,
                           [tokenAddress |-> tokenAddress, readOk |-> readOk,
                            nameOk |-> nameOk,
                            info |-> getTokenInfo(tokenAddress, readOk, nameOk)])
  /\ tokenCache' = CacheAfter(tokenCache, tokenAddress, readOk)
  /\ UNCHANGED <<config, isListening, factoryListeners, poolListeners, knownPools,
                 factorySubs, poolSubs, startTasks, discoveries, factoryDeliveries,
                 rawDeliveries, stopCalls, chainReadsOk, lastRaw, registrations,
                 stopReturned, emittedAfterStop, factoryNotes>>
  /\ UNCHANGED <<ingestVars, normVars, gatewayVars>>

(***************************************************************************)
(* A JavaScript Map is the sequence of its entries in insertion order.     *)
(***************************************************************************)
MapHas(m, k) == \E i \in DOMAIN m : m[i].key = k

\* mutant of MapSet: set() never replaces an entry
MapSetAppend(m, k, v) == Append(m, [key |-> k, value |-> v])

\* Map.prototype.set: replaces the value of an existing key, else adds an entry
MapSet(m, k, v) ==
  IF MapHas(m, k)
  THEN [i \in DOMAIN m |-> IF m[i].key = k THEN [key |-> k, value |-> v] ELSE m[i]]
  ELSE Append(m, [key |-> k, value |-> v])

MapValues(m) == {m[i].value : i \in DOMAIN m}

MapKeys(m) == {m[i].key : i \in DOMAIN m}

(***************************************************************************)
(* The ethers.Contract objects the listener creates.                       *)
(***************************************************************************)
\* setupFactoryListener of the k-th start() call, line 187
FactoryContract(k, protocol) == [by |-> "factory", k |-> k, n |-> 0, protocol |-> protocol]

\* startPoolListening of the k-th start() call for the i-th popular pool, line 342
PopularContract(k, i) == [by |-> "start", k |-> k, n |-> i, protocol |-> ""]

\* startPoolListening called by a creation handler of the factory contract for the
\* n-th creation log, line 342
DiscoveredContract(n, factoryContract) ==
  [by |-> "event", k |-> factoryContract.k, n |-> n, protocol |-> factoryContract.protocol]

(***************************************************************************)
(* start(): initializeFactoryListeners() runs without waiting for I/O.     *)
(***************************************************************************)
\* setupFactoryListener: a new contract, its creation handler, the map entry
setupFactoryListener(k, protocol, st) ==
  [listeners |-> MapSet(st.listeners, protocol, FactoryContract(k, protocol)),
   subs |-> st.subs \cup {[contract |-> FactoryContract(k, protocol),
                           protocol |-> protocol]}]

RECURSIVE initializeFactoryListeners(_, _, _, _)
initializeFactoryListeners(k, chainId, protocols, st) ==
  IF protocols = <<>> THEN st
  ELSE initializeFactoryListeners(k, chainId, Tail(protocols),
         IF Head(protocols) \in getChainConfig(chainId)
         THEN setupFactoryListener(k, Head(protocols), st)
         ELSE st)

NoTask == [pc |-> "none", i |-> 0]

ListenerInit(configs, reads) ==
  /\ config \in configs
  /\ chainReadsOk \in reads
  /\ isListening = FALSE
  /\ factoryListeners = <<>>
  /\ poolListeners = <<>>
  /\ knownPools = <<>>
  /\ tokenCache = {}
  /\ factorySubs = {}
  /\ poolSubs = {}
  /\ startTasks = [k \in 1..MaxStartCalls |-> NoTask]
  /\ discoveries = {}
  /\ factoryDeliveries = 0
  /\ rawDeliveries = 0
  /\ stopCalls = 0
  /\ lastRaw = [pool |-> "none", copies |-> 0]
  /\ registrations = [p \in {} |-> 0]
  /\ stopReturned = FALSE
  /\ emittedAfterStop = FALSE
  /\ factoryNotes = [p \in {} |-> 0]

\* how many start() calls the listener receives in a scenario
ListenerStartCap == IF scenario = "fresh" THEN 0 ELSE MaxStartCalls

\* start(), lines 83-94: the guard throws 'Listener is already running'; else
\* initializeFactoryListeners() and addPopularPools() up to its first chain read
start(k) ==
  /\ k <= ListenerStartCap
  /\ startTasks[k].pc = "none"
  /\ \A j \in 1..(k - 1) : startTasks[j].pc # "none"
  /\ IF AlreadyRunning(isListening)
     THEN /\ startTasks' = [startTasks EXCEPT ![k] = [pc |-> "error", i |-> 0]]
          /\ UNCHANGED <<factoryListeners, factorySubs, stopReturned>>
     ELSE /\ LET st == initializeFactoryListeners(k, config.chainId, config.protocols,
                         [listeners |-> factoryListeners, subs |-> factorySubs])
             IN /\ factoryListeners' = st.listeners
                /\ factorySubs' = st.subs
          /\ startTasks' = [startTasks EXCEPT ![k] = [pc |-> "tokens", i |-> 1]]
          /\ stopReturned' = FALSE
  /\ UNCHANGED <<config, chainReadsOk, isListening, poolListeners, knownPools, tokenCache, poolSubs,
                 discoveries, factoryDeliveries, rawDeliveries, stopCalls,
                 lastRaw, registrations, factoryNotes, emittedAfterStop>>
  /\ UNCHANGED <<ingestVars, normVars, tokenVars, gatewayVars>>

\* the loop of addPopularPools() moves to its next pool, or start() completes
\* (line 96)
NextPopularPool(k) ==
  IF startTasks[k].i < Len(popularPools)
  THEN /\ startTasks' = [startTasks EXCEPT ![k] = [pc |-> "tokens", i |-> startTasks[k].i + 1]]
       /\ UNCHANGED isListening
  ELSE /\ startTasks' = [startTasks EXCEPT ![k] = [pc |-> "done", i |-> 0]]
       /\ isListening' = TRUE

\* getToken0FromPool and getToken1FromPool have answered (the listener does nothing
\* between the two reads); a pool without both token addresses is skipped, else
\* startPoolListening() runs up to its first await
PopularTokens(k) ==
  /\ startTasks[k].pc = "tokens"
  /\ LET pool == popularPools[startTasks[k].i]
         token0 == getToken0FromPool(pool.address, chainReadsOk)
         token1 == getToken1FromPool(pool.address, chainReadsOk)
     IN IF ~BothTokens(token0, token1) \/ MapHas(poolListeners, pool.address)
        THEN NextPopularPool(k)
        ELSE /\ startTasks' = [startTasks EXCEPT ![k] =
                                 [pc |-> "resolve", i |-> startTasks[k].i,
                                  token0 |-> token0, token1 |-> token1]]
             /\ UNCHANGED isListening
  /\ UNCHANGED <<config, chainReadsOk, factoryListeners, poolListeners, knownPools, tokenCache,
                 factorySubs, poolSubs, discoveries, factoryDeliveries, rawDeliveries,
                 stopCalls, lastRaw, registrations, factoryNotes, stopReturned,
                 emittedAfterStop>>
  /\ UNCHANGED <<ingestVars, normVars, tokenVars, gatewayVars>>

(***************************************************************************)
(* startPoolListening(), lines 345-366: the two getTokenInfo calls have    *)
(* answered (the only thing the listener does between them is the write to *)
(* tokenCache); the PoolInfo is stored, the handlers are registered on the *)
(* new contract, the contract is stored.                                   *)
(***************************************************************************)
PoolInfo(protocol, poolAddress, token0Info, token1Info) ==
  [address |-> poolAddress, protocol |-> protocol,
   version |-> IF protocol = "uniswap-v3" THEN "v3" ELSE "v2",
   token0 |-> token0Info, token1 |-> token1Info]

Registered(reg, poolAddress) ==
  [p \in DOMAIN reg \cup {poolAddress} |->
     IF p = poolAddress THEN (IF p \in DOMAIN reg THEN reg[p] + 1 ELSE 1) ELSE reg[p]]

ListenToPool(contract, protocol, poolAddress, token0, token1) ==
  LET poolInfo == PoolInfo(protocol, poolAddress,
                           getTokenInfo(token0, chainReadsOk, chainReadsOk),
                           getTokenInfo(token1, chainReadsOk, chainReadsOk))
  IN /\ tokenCache' = CacheAfter(CacheAfter(tokenCache, token0, chainReadsOk),
                                 token1, chainReadsOk)
     /\ knownPools' = MapSet(knownPools, poolAddress, poolInfo)
     /\ poolSubs' = poolSubs \cup {[contract |-> contract, poolInfo |-> poolInfo]}
     /\ poolListeners' = MapSet(poolListeners, poolAddress, contract)
     /\ registrations' = Registered(registrations, poolAddress)

\* startPoolListening() of the pre-seed completes and the loop goes on
PopularListen(k) ==
  /\ startTasks[k].pc = "resolve"
  /\ LET pool == popularPools[startTasks[k].i]
     IN ListenToPool(PopularContract(k, startTasks[k].i), pool.protocol, pool.address,
                     startTasks[k].token0, startTasks[k].token1)
  /\ NextPopularPool(k)
  /\ UNCHANGED <<config, chainReadsOk, factoryListeners, factorySubs, discoveries, factoryDeliveries,
                 rawDeliveries, stopCalls, lastRaw, stopReturned, emittedAfterStop,
                 factoryNotes>>
  /\ UNCHANGED <<ingestVars, normVars, tokenVars, gatewayVars>>

(***************************************************************************)
(* Pool discovery from a factory event.                                    *)
(***************************************************************************)
\* mutant of FactoryEventType: every creation handler reports a pool_created
FactoryEventTypePool(protocol) == "pool_created"

\* lines 188-200: the handler registered for the protocol, and the eventType it
\* puts in the FactoryEvent (lines 236 and 289)
FactoryEventType(protocol) ==
  IF protocol = "uniswap-v3" THEN "pool_created" ELSE "pair_created"

\* History: the creation log of poolAddress is delivered to each of `handlers`, and
\* each of them emits one 'factoryEvent' (line 245 / 298)
FactoryNote(notes, protocol, poolAddress, handlers) ==
  [p \in DOMAIN notes \cup {poolAddress} |->
     IF p = poolAddress
     THEN [protocol |-> protocol, eventType |-> FactoryEventType(protocol),
           deliveries |-> Cardinality(handlers),
           notifications |-> Cardinality({<<"factoryEvent", h>> : h \in handlers})]
     ELSE notes[p]]

\* The chain delivers a PairCreated / PoolCreated log of the protocol's factory:
\* every registered creation handler (handlePairCreated, handlePoolCreated) emits
\* 'factoryEvent' and calls startPoolListening(), which returns at once for a pool
\* in poolListeners and else creates the pool's contract and waits for getTokenInfo.
FactoryCreated(protocol, poolAddress) ==
  /\ factoryDeliveries < MaxFactoryDeliveries
  /\ LET handlers == {s \in factorySubs : s.protocol = protocol}
     IN /\ handlers # {}
        /\ factoryNotes' = FactoryNote(factoryNotes, protocol, poolAddress, handlers)
        /\ discoveries' = discoveries \cup
             (IF MapHas(poolListeners, poolAddress) THEN {}
              ELSE {[contract |-> DiscoveredContract(factoryDeliveries + 1, s.contract),
                     protocol |-> protocol, pool |-> poolAddress] :
                    s \in handlers})
  /\ factoryDeliveries' = factoryDeliveries + 1
  /\ emittedAfterStop' = (emittedAfterStop \/ stopReturned)
  /\ UNCHANGED <<config, chainReadsOk, isListening, factoryListeners, poolListeners, knownPools,
                 tokenCache, factorySubs, poolSubs, startTasks,
                 rawDeliveries, stopCalls, lastRaw, registrations, stopReturned>>
  /\ UNCHANGED <<ingestVars, normVars, tokenVars, gatewayVars>>

\* startPoolListening() of a discovery completes
DiscoveryListen(d) ==
  /\ ListenToPool(d.contract, d.protocol, d.pool, Token0Of(d.pool), Token1Of(d.pool))
  /\ discoveries' = discoveries \ {d}
  /\ UNCHANGED <<config, chainReadsOk, isListening, factoryListeners, factorySubs, startTasks,
                 factoryDeliveries, rawDeliveries, stopCalls, lastRaw, stopReturned,
                 emittedAfterStop, factoryNotes>>
  /\ UNCHANGED <<ingestVars, normVars, tokenVars, gatewayVars>>

(***************************************************************************)
(* A pool emits a log: every contract with handlers registered for the     *)
(* pool runs its handler, and each handler emits one 'standardizedEvent'.  *)
(***************************************************************************)
PoolEvent(poolAddress) ==
  /\ rawDeliveries < MaxRawDeliveries
  /\ LET handlers == {s \in poolSubs : s.poolInfo.address = poolAddress}
     IN /\ handlers # {}
        /\ lastRaw' = [pool |-> poolAddress, copies |-> Cardinality(handlers)]
  /\ rawDeliveries' = rawDeliveries + 1
  /\ emittedAfterStop' = (emittedAfterStop \/ stopReturned)
  /\ UNCHANGED <<config, chainReadsOk, isListening, factoryListeners, poolListeners, knownPools,
                 tokenCache, factorySubs, poolSubs, startTasks,
                 discoveries, factoryDeliveries, stopCalls, registrations, factoryNotes,
                 stopReturned>>
  /\ UNCHANGED <<ingestVars, normVars, tokenVars, gatewayVars>>

(***************************************************************************)
(* stop(), lines 111-139: on a listener that is not running it returns at  *)
(* once; else the handlers of the contracts in the two maps are removed    *)
(* and the maps are cleared.                                               *)
(***************************************************************************)
\* how many stop() calls the listener receives in a scenario
ListenerStopCap == IF scenario = "listener" THEN MaxRepeatedStopCalls
                   ELSE IF scenario = "fresh" THEN 0 ELSE MaxStopCalls

stop ==
  /\ stopCalls < ListenerStopCap
  /\ stopCalls' = stopCalls + 1
  /\ IF NotRunning(isListening)
     THEN UNCHANGED <<factorySubs, poolSubs, factoryListeners, poolListeners,
                      isListening, stopReturned, emittedAfterStop>>
     ELSE /\ factorySubs' = {s \in factorySubs :
                               s.contract \notin MapValues(factoryListeners)}
          /\ poolSubs' = {s \in poolSubs : s.contract \notin MapValues(poolListeners)}
          /\ factoryListeners' = <<>>
          /\ poolListeners' = <<>>
          /\ isListening' = FALSE
          /\ stopReturned' = TRUE
          /\ emittedAfterStop' = FALSE
  /\ UNCHANGED <<config, chainReadsOk, knownPools, tokenCache, startTasks, discoveries,
                 factoryDeliveries, rawDeliveries, lastRaw,
                 registrations, factoryNotes>>
  /\ UNCHANGED <<ingestVars, normVars, tokenVars, gatewayVars>>

\* the RPC endpoint stops or resumes answering the token contract reads
ChainReadsChange ==
  /\ chainReadsOk' = ~chainReadsOk
  /\ UNCHANGED <<config, isListening, factoryListeners, poolListeners, knownPools,
                 tokenCache, factorySubs, poolSubs, startTasks, discoveries,
                 factoryDeliveries, rawDeliveries, stopCalls, lastRaw, registrations,
                 stopReturned, emittedAfterStop, factoryNotes>>
  /\ UNCHANGED <<ingestVars, normVars, tokenVars, gatewayVars>>

ListenerNext ==
  \/ \E k \in 1..MaxStartCalls : start(k)
  \/ \E k \in 1..MaxStartCalls : PopularTokens(k)
  \/ \E k \in 1..MaxStartCalls : PopularListen(k)
  \/ \E protocol \in ProtocolType : \E poolAddress \in PoolsOf(protocol) :
       FactoryCreated(protocol, poolAddress)
  \/ \E d \in discoveries : DiscoveryListen(d)
  \/ \E poolAddress \in MapKeys(knownPools) : PoolEvent(poolAddress)
  \/ stop

(***************************************************************************)
(* Event normalization: handleV3SwapEvent.                                 *)
(*                                                                         *)
(* A JavaScript value read from the raw event is undefined, a number or a  *)
(* string; a decimal string is the sequence of its characters.             *)
(***************************************************************************)
Undefined == [t |-> "undefined", n |-> 0, s |-> ""]

Num(n) == [t |-> "number", n |-> n, s |-> ""]

Str(s) == [t |-> "string", n |-> 0, s |-> s]

\* `tx-${Date.now()}`
TxNow(clock) == [t |-> "string", n |-> clock, s |-> "tx-"]

\* ToBoolean: undefined, 0 and "" are falsy
Truthy(v) ==
  CASE v.t = "undefined" -> FALSE
    [] v.t = "number" -> v.n # 0
    [] v.t = "string" -> v.s # ""

\* a || b
Or(a, b) == IF Truthy(a) THEN a ELSE b

Digit(d) == <<"0", "1", "2", "3", "4", "5", "6", "7", "8", "9">>[d + 1]

RECURSIVE Digits(_)
Digits(n) == IF n < 10 THEN <<Digit(n)>> ELSE Append(Digits(n \div 10), Digit(n % 10))

\* BigInt.prototype.toString()
toString(n) == IF n < 0 THEN <<"-">> \o Digits(-n) ELSE Digits(n)

\* String.prototype.startsWith('-')
StartsWithMinus(str) == Len(str) > 0 /\ str[1] = "-"

\* mutant of Slice1: the sign is not cut off
SliceNone(str) == str

\* String.prototype.slice(1)
Slice1(str) == SubSeq(str, 2, Len(str))

\* lines 774-777, for one token
AmountIn(amount) == IF StartsWithMinus(toString(amount)) THEN <<"0">> ELSE toString(amount)

AmountOut(amount) ==
  IF StartsWithMinus(toString(amount)) THEN Slice1(toString(amount)) ELSE <<"0">>

\* lines 753-754
ExtractTxHash(event, clock) ==
  Or(Or(Or(event.transactionHash, event.hash), event.txNestedHash), TxNow(clock))

ExtractLogIndex(event, clock) ==
  Or(Or(Or(event.logIndex, event.index), event.logNestedIndex), Num(clock))

\* lines 757-781: the StandardizedEvent of a V3 Swap log
V3SwapEvent(event, clock) ==
  [id |-> <<ExtractTxHash(event, clock), ExtractLogIndex(event, clock), "swap">>,
   eventType |-> "swap",
   timestamp |-> clock,
   transactionHash |-> ExtractTxHash(event, clock),
   logIndex |-> ExtractLogIndex(event, clock),
   data |-> [type |-> "swap",
             amount0In |-> AmountIn(event.amount0),
             amount1In |-> AmountIn(event.amount1),
             amount0Out |-> AmountOut(event.amount0),
             amount1Out |-> AmountOut(event.amount1)]]

\* the signed deltas and the metadata fields a raw Swap log is drawn from
Amounts == {0 - 1000, 0 - 1, 0, 1, 2000}

RawEvents ==
  [amount0 : Amounts, amount1 : Amounts,
   transactionHash : {Undefined, Str("0xaa")},
   hash : {Undefined, Str("0xbb")},
   txNestedHash : {Undefined},
   logIndex : {Undefined, Num(0), Num(1)},
   index : {Undefined, Num(0), Num(2)},
   logNestedIndex : {Undefined, Num(3)}]

\* a log with no field set
NoEvent ==
  [amount0 |-> 0, amount1 |-> 0, transactionHash |-> Undefined, hash |-> Undefined,
   txNestedHash |-> Undefined, logIndex |-> Undefined, index |-> Undefined,
   logNestedIndex |-> Undefined]

NormInit(events) ==
  /\ rawEvent \in events
  /\ now = 1
  /\ emitted = <<>>
  /\ rows = <<>>

\* the raw log is delivered to handleV3SwapEvent, which emits its StandardizedEvent
handleV3SwapEvent ==
  /\ Len(emitted) < MaxNormalizations
  /\ emitted' = Append(emitted, V3SwapEvent(rawEvent, now))
  /\ UNCHANGED <<rawEvent, now, rows>>
  /\ UNCHANGED <<ingestVars, listenerVars, tokenVars, gatewayVars>>

\* Date.now() advances
Tick ==
  /\ now < MaxClock
  /\ now' = now + 1
  /\ UNCHANGED <<rawEvent, emitted, rows>>
  /\ UNCHANGED <<ingestVars, listenerVars, tokenVars, gatewayVars>>

NormNext ==
  \/ handleV3SwapEvent
  \/ Tick

(***************************************************************************)
(* Event normalization: the handlers of the V2 pools and the Initialize,   *)
(* Mint and Burn handlers of the V3 pools, and the storage write.          *)
(*                                                                         *)
(* ethers hands every integer of a log to the handler as a bigint: a sign  *)
(* and the decimal digits of the magnitude, most significant first.        *)
(***************************************************************************)
Big(digits) == [neg |-> FALSE, digits |-> digits]

Minus(digits) == [neg |-> TRUE, digits |-> digits]

\* Number.MAX_SAFE_INTEGER = 2^53 - 1
MaxSafeInteger == Big(<<9, 0, 0, 7, 1, 9, 9, 2, 5, 4, 7, 4, 0, 9, 9, 1>>)

\* 2^53 + 1, which no double represents
Unsafe == Big(<<9, 0, 0, 7, 1, 9, 9, 2, 5, 4, 7, 4, 0, 9, 9, 3>>)

\* 2^96, the sqrtPriceX96 of the price 1
PriceOne == Big(<<7, 9, 2, 2, 8, 1, 6, 2, 5, 1, 4, 2, 6, 4, 3, 3, 7, 5, 9, 3, 5, 4, 3, 9, 5, 0,
                 3, 3, 6>>)

\* a > b for two non-negative bigints
Exceeds(a, b) ==
  \/ Len(a.digits) > Len(b.digits)
  \/ /\ Len(a.digits) = Len(b.digits)
     /\ \E i \in DOMAIN a.digits :
          /\ a.digits[i] > b.digits[i]
          /\ \A j \in 1..(i - 1) : a.digits[j] = b.digits[j]

\* mutant of bigintToString: the value goes through a double, which keeps the
\* leading digits only
numberToString(b) ==
  (IF b.neg THEN <<"-">> ELSE <<>>)
    \o [i \in DOMAIN b.digits |-> IF i <= 15 THEN Digit(b.digits[i]) ELSE "0"]

\* BigInt.prototype.toString() (String.prototype.toString() of the result is the
\* same string)
bigintToString(b) ==
  (IF b.neg THEN <<"-">> ELSE <<>>) \o [i \in DOMAIN b.digits |-> Digit(b.digits[i])]

\* lines 471, 529, 587, 641, 692, 823, 886
ExtractBlockNumber(event) ==
  Or(Or(Or(event.blockNumber, event.block), event.logNestedBlockNumber), Num(0))

\* the fields every handler fills in the same way
PoolLogEvent(event, clock, eventType, data) ==
  [id |-> <<ExtractTxHash(event, clock), ExtractLogIndex(event, clock), eventType>>,
   protocol |-> event.protocol,
   eventType |-> eventType,
   timestamp |-> clock,
   blockNumber |-> ExtractBlockNumber(event),
   transactionHash |-> ExtractTxHash(event, clock),
   logIndex |-> ExtractLogIndex(event, clock),
   data |-> data]

\* mutant of SwapData: the In and Out amounts change places
SwapDataCrossed(args) ==
  [type |-> "swap",
   amount0In |-> bigintToString(args.amount0Out),
   amount1In |-> bigintToString(args.amount1Out),
   amount0Out |-> bigintToString(args.amount0In),
   amount1Out |-> bigintToString(args.amount1In)]

\* lines 486-494
SwapData(args) ==
  [type |-> "swap",
   amount0In |-> bigintToString(args.amount0In),
   amount1In |-> bigintToString(args.amount1In),
   amount0Out |-> bigintToString(args.amount0Out),
   amount1Out |-> bigintToString(args.amount1Out)]

\* mutant of V2Liquidity: the liquidity is guessed from the first amount
V2LiquidityGuess(amount0, amount1) == bigintToString(amount0)

\* lines 549 and 607: liquidity: '0'
V2Liquidity(amount0, amount1) == <<"0">>

\* lines 543-550 (type 'mint') and 601-608 (type 'burn')
V2LiquidityData(type, args) ==
  [type |-> type,
   amount0 |-> bigintToString(args.amount0),
   amount1 |-> bigintToString(args.amount1),
   liquidity |-> V2Liquidity(args.amount0, args.amount1)]

\* lines 655-659
SyncData(args) ==
  [type |-> "sync",
   reserve0 |-> bigintToString(args.reserve0),
   reserve1 |-> bigintToString(args.reserve1)]

\* lines 706-710
InitializeData(args) ==
  [type |-> "initialize",
   sqrtPriceX96 |-> bigintToString(args.sqrtPriceX96),
   tick |-> args.tick]

\* lines 837-846 (type 'mint') and 900-909 (type 'burn')
V3LiquidityData(type, args) ==
  [type |-> type,
   amount0 |-> bigintToString(args.amount0),
   amount1 |-> bigintToString(args.amount1),
   liquidity |-> bigintToString(args.amount),
   tickLower |-> args.tickLower,
   tickUpper |-> args.tickUpper]

\* line 399: the protocols whose pools get the V2 handlers
IsV2(protocol) == protocol = "uniswap-v2" \/ protocol = "pancakeswap-v2"

\* setupPoolEventListeners: the chain delivers the log `name` of a pool of the V2
\* protocols (v2 = TRUE) or of uniswap-v3 to the handler registered for it
Delivered(v2, name) ==
  /\ rawEvent.name = name
  /\ IsV2(rawEvent.protocol) = v2
  /\ v2 \/ rawEvent.protocol = "uniswap-v3"
  /\ Len(emitted) < MaxNormalizations

handleSwapEvent ==
  /\ Delivered(TRUE, "Swap")
  /\ emitted' = Append(emitted,
       PoolLogEvent(rawEvent, now, "swap", SwapData(rawEvent.args)))
  /\ UNCHANGED <<rawEvent, now, rows>>
  /\ UNCHANGED <<ingestVars, listenerVars, tokenVars, gatewayVars>>

handleMintEvent ==
  /\ Delivered(TRUE, "Mint")
  /\ emitted' = Append(emitted,
       PoolLogEvent(rawEvent, now, "mint", V2LiquidityData("mint", rawEvent.args)))
  /\ UNCHANGED <<rawEvent, now, rows>>
  /\ UNCHANGED <<ingestVars, listenerVars, tokenVars, gatewayVars>>

handleBurnEvent ==
  /\ Delivered(TRUE, "Burn")
  /\ emitted' = Append(emitted,
       PoolLogEvent(rawEvent, now, "burn", V2LiquidityData("burn", rawEvent.args)))
  /\ UNCHANGED <<rawEvent, now, rows>>
  /\ UNCHANGED <<ingestVars, listenerVars, tokenVars, gatewayVars>>

handleSyncEvent ==
  /\ Delivered(TRUE, "Sync")
  /\ emitted' = Append(emitted,
       PoolLogEvent(rawEvent, now, "sync", SyncData(rawEvent.args)))
  /\ UNCHANGED <<rawEvent, now, rows>>
  /\ UNCHANGED <<ingestVars, listenerVars, tokenVars, gatewayVars>>

handleInitializeEvent ==
  /\ Delivered(FALSE, "Initialize")
  /\ emitted' = Append(emitted,
       PoolLogEvent(rawEvent, now, "initialize", InitializeData(rawEvent.args)))
  /\ UNCHANGED <<rawEvent, now, rows>>
  /\ UNCHANGED <<ingestVars, listenerVars, tokenVars, gatewayVars>>

handleV3MintEvent ==
  /\ Delivered(FALSE, "Mint")
  /\ emitted' = Append(emitted,
       PoolLogEvent(rawEvent, now, "mint", V3LiquidityData("mint", rawEvent.args)))
  /\ UNCHANGED <<rawEvent, now, rows>>
  /\ UNCHANGED <<ingestVars, listenerVars, tokenVars, gatewayVars>>

handleV3BurnEvent ==
  /\ Delivered(FALSE, "Burn")
  /\ emitted' = Append(emitted,
       PoolLogEvent(rawEvent, now, "burn", V3LiquidityData("burn", rawEvent.args)))
  /\ UNCHANGED <<rawEvent, now, rows>>
  /\ UNCHANGED <<ingestVars, listenerVars, tokenVars, gatewayVars>>

(***************************************************************************)
(* ClickHouseService.insertEvent.  The service hands every event it got    *)
(* from the listener to insertEvent as the object it received              *)
(* (eventBuffer.push(event), insertEvent(event)).                          *)
(***************************************************************************)
\* JSON.stringify of a string
JsonString(str) == <<"\"">> \o str \o <<"\"">>

\* the fields of event.data that hold a bigint (the ticks); the others hold strings
BigIntFields == {"tick", "tickLower", "tickUpper"}

\* lines 232-244: a bigint becomes its decimal string, a string is kept
serializeBigInt(data) ==
  [f \in DOMAIN data |-> IF f \in BigIntFields THEN bigintToString(data[f]) ELSE data[f]]

\* JSON.stringify(serializeBigInt(event.data)), line 265, field by field
EventDataJson(data) ==
  [f \in DOMAIN data \ {"type"} |-> JsonString(serializeBigInt(data)[f])]

\* Number(v) of a number
ToNumber(v) == IF v.t = "number" THEN v ELSE [t |-> "number", n |-> 0, s |-> "NaN"]

\* lines 247-269
InsertData(event) ==
  [id |-> event.id,
   protocol |-> event.protocol,
   event_type |-> event.eventType,
   timestamp |-> event.timestamp,
   block_number |-> ToNumber(event.blockNumber),
   transaction_hash |-> event.transactionHash,
   log_index |-> ToNumber(event.logIndex),
   event_data |-> EventDataJson(event.data)]

\* a flush hands the next emitted event to insertEvent, which builds its row
insertEvent ==
  /\ Len(rows) < Len(emitted)
  /\ rows' = Append(rows, InsertData(emitted[Len(rows) + 1]))
  /\ UNCHANGED <<rawEvent, now, emitted>>
  /\ UNCHANGED <<ingestVars, listenerVars, tokenVars, gatewayVars>>

(***************************************************************************)
(* The raw pool logs.                                                      *)
(***************************************************************************)
\* where the event object may carry the transaction hash, the log index and the
\* block number; the first log of a transaction batch has index 0, and no log is in
\* block 0
Metas ==
  [transactionHash : {Undefined, Str("0xaa")},
   hash : {Undefined, Str("0xbb")},
   txNestedHash : {Undefined, Str("0xcc")},
   logIndex : {Undefined, Num(0), Num(1)},
   index : {Undefined, Num(0), Num(2)},
   logNestedIndex : {Undefined, Num(0), Num(3)},
   blockNumber : {Undefined, Num(7)},
   block : {Undefined, Num(8)},
   logNestedBlockNumber : {Undefined, Num(9)}]

\* an ethers v5 event object (fields on the event) and an ethers v6 payload (fields
\* on event.log only)
FewMetas ==
  {[transactionHash |-> Str("0xaa"), hash |-> Undefined, txNestedHash |-> Undefined,
    logIndex |-> Num(1), index |-> Undefined, logNestedIndex |-> Undefined,
    blockNumber |-> Num(7), block |-> Undefined, logNestedBlockNumber |-> Undefined],
   [transactionHash |-> Undefined, hash |-> Undefined, txNestedHash |-> Undefined,
    logIndex |-> Undefined, index |-> Undefined, logNestedIndex |-> Num(3),
    blockNumber |-> Undefined, block |-> Undefined, logNestedBlockNumber |-> Num(9)]}

\* Swap(sender, 100, 0, 0, 95, to)
ExampleSwap ==
  [amount0In |-> Big(<<1, 0, 0>>), amount1In |-> Big(<<0>>),
   amount0Out |-> Big(<<0>>), amount1Out |-> Big(<<9, 5>>)]

SwapArgs ==
  {ExampleSwap,
   [amount0In |-> Big(<<0>>), amount1In |-> Unsafe,
    amount0Out |-> PriceOne, amount1Out |-> Big(<<0>>)],
   [amount0In |-> Big(<<7>>), amount1In |-> Big(<<8>>),
    amount0Out |-> Big(<<9>>), amount1Out |-> Big(<<1, 0>>)]}

V2LiquidityArgs ==
  {[amount0 |-> Big(<<0>>), amount1 |-> Big(<<0>>)],
   [amount0 |-> Big(<<1, 0, 0>>), amount1 |-> Unsafe]}

SyncArgs ==
  {[reserve0 |-> Unsafe, reserve1 |-> Big(<<9, 5>>)],
   [reserve0 |-> Big(<<0>>), reserve1 |-> PriceOne]}

InitializeArgs ==
  {[sqrtPriceX96 |-> PriceOne, tick |-> Big(<<0>>)],
   [sqrtPriceX96 |-> Unsafe, tick |-> Minus(<<6, 0>>)]}

V3LiquidityArgs ==
  {[tickLower |-> Minus(<<6, 0>>), tickUpper |-> Big(<<6, 0>>), amount |-> Unsafe,
    amount0 |-> Big(<<1, 0, 0>>), amount1 |-> Big(<<9, 5>>)],
   [tickLower |-> Big(<<0>>), tickUpper |-> Big(<<0>>), amount |-> Big(<<0>>),
    amount0 |-> Big(<<0>>), amount1 |-> Big(<<0>>)]}

\* the logs a pool of each protocol emits, with their arguments
PoolCalls ==
  UNION {{<<p, "Swap", a>> : a \in SwapArgs}
           \cup {<<p, "Mint", a>> : a \in V2LiquidityArgs}
           \cup {<<p, "Burn", a>> : a \in V2LiquidityArgs}
           \cup {<<p, "Sync", a>> : a \in SyncArgs} :
         p \in {"uniswap-v2", "pancakeswap-v2"}}
    \cup {<<"uniswap-v3", "Initialize", a>> : a \in InitializeArgs}
    \cup {<<"uniswap-v3", "Mint", a>> : a \in V3LiquidityArgs}
    \cup {<<"uniswap-v3", "Burn", a>> : a \in V3LiquidityArgs}

PoolLog(call, meta) ==
  [protocol |-> call[1], name |-> call[2], args |-> call[3],
   transactionHash |-> meta.transactionHash, hash |-> meta.hash,
   txNestedHash |-> meta.txNestedHash,
   logIndex |-> meta.logIndex, index |-> meta.index,
   logNestedIndex |-> meta.logNestedIndex,
   blockNumber |-> meta.blockNumber, block |-> meta.block,
   logNestedBlockNumber |-> meta.logNestedBlockNumber]

\* every log with the two usual event objects, and the example Swap with every
\* event object
RawPoolLogs ==
  {PoolLog(call, meta) : call \in PoolCalls, meta \in FewMetas}
    \cup {PoolLog(<<"uniswap-v2", "Swap", ExampleSwap>>, meta) : meta \in Metas}

(***************************************************************************)
(* ClickHouseService.connect(), lines 60-82: a loop of ping requests with  *)
(* a pause of 5 seconds after a failed one.                                *)
(***************************************************************************)
NoConnect == [pc |-> "none", retryCount |-> 0, pings |-> 0, connectedBefore |-> FALSE]

\* mutant of Retries: one more attempt is made
RetriesOnceMore(retryCount) == retryCount <= maxRetries

\* lines 64 and 74: retryCount < maxRetries
Retries(retryCount) == retryCount < maxRetries

\* connect() is called (no connect() call is in progress): lines 61-67, up to the
\* await of the first ping
connect ==
  /\ connectTask.pc \in {"none", "returned", "thrown"}
  /\ Len(connectLog) < MaxConnectCalls
  /\ Retries(0)
  /\ connectTask' = [pc |-> "ping", retryCount |-> 0, pings |-> 1,
                     connectedBefore |-> isConnected]
  /\ UNCHANGED <<connectLog, ingestVars, listenerVars, normVars, tokenVars>>

\* lines 67-70: the ping is answered; the flag is set and connect() returns
PingOk ==
  /\ connectTask.pc = "ping"
  /\ isConnected' = TRUE
  /\ connectTask' = [connectTask EXCEPT !.pc = "returned"]
  /\ connectLog' = Append(connectLog, [result |-> "returned", pings |-> connectTask.pings])
  /\ UNCHANGED <<isRunning, eventBuffer, factoryEventBuffer, flushTimer, listenersUp,
                 stopPc, stopPcB, evFlights, facFlights, inserted, insertedFactory,
                 scenario, evSeen, facSeen, timerFires, failures, pendingRetry>>
  /\ UNCHANGED <<callVars, notified, listenerVars, normVars, tokenVars>>

\* lines 71-80: the ping is rejected; retryCount++, then the pause or the throw
PingFail ==
  /\ connectTask.pc = "ping"
  /\ IF Retries(connectTask.retryCount + 1)
     THEN /\ connectTask' = [connectTask EXCEPT !.pc = "pause",
                                                !.retryCount = connectTask.retryCount + 1]
          /\ UNCHANGED connectLog
     ELSE /\ connectTask' = [connectTask EXCEPT !.pc = "thrown",
                                                !.retryCount = connectTask.retryCount + 1]
          /\ connectLog' = Append(connectLog,
                                  [result |-> "thrown", pings |-> connectTask.pings])
  /\ UNCHANGED <<ingestVars, listenerVars, normVars, tokenVars>>

\* line 75 then lines 64-67: the pause is over, the loop condition holds and the
\* next ping is sent
PingAgain ==
  /\ connectTask.pc = "pause"
  /\ Retries(connectTask.retryCount)
  /\ connectTask' = [connectTask EXCEPT !.pc = "ping", !.pings = connectTask.pings + 1]
  /\ UNCHANGED <<connectLog, ingestVars, listenerVars, normVars, tokenVars>>

(***************************************************************************)
(* SpecIngest: the whole service, from its construction and from the       *)
(* moment start() has completed.                                           *)
(* SpecBatch: a buffer that is nearly full, up to and beyond the size      *)
(* threshold (stop() is left to SpecIngest).                               *)
(***************************************************************************)
InitIngest ==
  /\ IngestInit({"empty", "fresh"})
  /\ ListenerInit({EthereumConfig}, {TRUE})
  /\ NormInit({NoEvent})
  /\ resolutions = <<>>
  /\ connectTask = NoConnect
  /\ connectLog = <<>>

InitBatch ==
  /\ IngestInit({"events", "factory"})
  /\ ListenerInit({EthereumConfig}, {TRUE})
  /\ NormInit({NoEvent})
  /\ resolutions = <<>>
  /\ connectTask = NoConnect
  /\ connectLog = <<>>

InitListener ==
  /\ IngestInit({"empty"})
  /\ ListenerInit(Configs, BOOLEAN)
  /\ NormInit({NoEvent})
  /\ resolutions = <<>>
  /\ connectTask = NoConnect
  /\ connectLog = <<>>

InitNorm ==
  /\ IngestInit({"empty"})
  /\ ListenerInit({EthereumConfig}, {TRUE})
  /\ NormInit(RawEvents)
  /\ resolutions = <<>>
  /\ connectTask = NoConnect
  /\ connectLog = <<>>

IngestNext ==
  \/ handleStandardizedEvent
  \/ handleFactoryEvent
  \/ TimerFire
  \/ \E f \in evFlights : EventWriteOk(f)
  \/ \E f \in evFlights : EventWriteFail(f)
  \/ \E f \in facFlights : FactoryWriteOk(f)
  \/ \E f \in facFlights : FactoryWriteFail(f)
  \/ StopListeners
  \/ StopFlush
  \/ StopClearTimer
  \/ StopDisconnect
  \/ ServiceStart
  \/ StartConnect
  \/ StartConnectFail
  \/ StartSchemaFail
  \/ StartFinish

SpecIngest == InitIngest /\ [][IngestNext]_vars

BatchNext ==
  \/ handleStandardizedEvent
  \/ handleFactoryEvent
  \/ TimerFire
  \/ \E f \in evFlights : EventWriteOk(f)
  \/ \E f \in evFlights : EventWriteFail(f)
  \/ \E f \in facFlights : FactoryWriteOk(f)
  \/ \E f \in facFlights : FactoryWriteFail(f)

SpecBatch == InitBatch /\ [][BatchNext]_vars

(***************************************************************************)
(* SpecConnect: connect() calls on the storage gateway of a service that   *)
(* has been constructed, each with pings that are answered or rejected.    *)
(***************************************************************************)
InitConnect ==
  /\ IngestInit({"fresh"})
  /\ ListenerInit({EthereumConfig}, {TRUE})
  /\ NormInit({NoEvent})
  /\ resolutions = <<>>
  /\ connectTask = NoConnect
  /\ connectLog = <<>>

ConnectNext ==
  \/ connect
  \/ PingOk
  \/ PingFail
  \/ PingAgain

\* the storage server answers or rejects a ping that was sent
PingAnswered == PingOk \/ PingFail

\* every ping is answered or rejected, and the timer of the pause fires
SpecConnect ==
  /\ InitConnect
  /\ [][ConnectNext]_vars
  /\ WF_vars(PingAnswered)
  /\ WF_vars(PingAgain)

(***************************************************************************)
(* SpecStops: a service started from scratch whose stop() is called again  *)
(* while a stop() call is in progress.                                     *)
(***************************************************************************)
InitStops ==
  /\ IngestInit({"fresh"})
  /\ ListenerInit({EthereumConfig}, {TRUE})
  /\ NormInit({NoEvent})
  /\ resolutions = <<>>
  /\ connectTask = NoConnect
  /\ connectLog = <<>>

StopsNext ==
  \/ IngestNext
  \/ StopAgain
  \/ StopAgainFlush
  \/ StopAgainClearTimer
  \/ StopAgainDisconnect

SpecStops == InitStops /\ [][StopsNext]_vars

(***************************************************************************)
(* SpecLive: the running service with a flush timer that keeps firing      *)
(* (setInterval) and storage writes that are answered; at most MaxFailures *)
(* of them fail.                                                           *)
(***************************************************************************)
InitLive ==
  /\ IngestInit({"live"})
  /\ ListenerInit({EthereumConfig}, {TRUE})
  /\ NormInit({NoEvent})
  /\ resolutions = <<>>
  /\ connectTask = NoConnect
  /\ connectLog = <<>>

\* the storage gateway answers a pending insertEvent / insertFactoryEvent
EventWriteAnswered == \E f \in evFlights : EventWriteOk(f) \/ EventWriteFail(f)

FactoryWriteAnswered == \E f \in facFlights : FactoryWriteOk(f) \/ FactoryWriteFail(f)

SpecLive ==
  /\ InitLive
  /\ [][BatchNext]_vars
  /\ WF_vars(TimerFire)
  /\ WF_vars(EventWriteAnswered)
  /\ WF_vars(FactoryWriteAnswered)

(***************************************************************************)
(* SpecListener: one ProtocolEventListener from its construction.          *)
(* SpecNorm: one raw V3 Swap log, delivered to its handler at different    *)
(* times.                                                                  *)
(***************************************************************************)
SpecListener == InitListener /\ [][ListenerNext]_vars

SpecNorm == InitNorm /\ [][NormNext]_vars

(***************************************************************************)
(* SpecPoolLogs: one raw pool log, delivered to the handler registered for *)
(* it, and the emitted events written to storage.                          *)
(***************************************************************************)
InitPoolLogs ==
  /\ IngestInit({"empty"})
  /\ ListenerInit({EthereumConfig}, {TRUE})
  /\ NormInit(RawPoolLogs)
  /\ resolutions = <<>>
  /\ connectTask = NoConnect
  /\ connectLog = <<>>

PoolLogsNext ==
  \/ handleSwapEvent
  \/ handleMintEvent
  \/ handleBurnEvent
  \/ handleSyncEvent
  \/ handleInitializeEvent
  \/ handleV3MintEvent
  \/ handleV3BurnEvent
  \/ insertEvent
  \/ Tick

SpecPoolLogs == InitPoolLogs /\ [][PoolLogsNext]_vars

(***************************************************************************)
(* SpecRegistry: the Ethereum listener of the ingestion service with an    *)
(* RPC endpoint whose token contract reads fail at some times and answer   *)
(* at others.                                                              *)
(***************************************************************************)
InitRegistry ==
  /\ IngestInit({"empty"})
  /\ ListenerInit({EthereumConfig}, {TRUE})
  /\ NormInit({NoEvent})
  /\ resolutions = <<>>
  /\ connectTask = NoConnect
  /\ connectLog = <<>>

RegistryNext ==
  \/ ListenerNext
  \/ ChainReadsChange

SpecRegistry == InitRegistry /\ [][RegistryNext]_vars

(***************************************************************************)
(* SpecTokens: getTokenInfo called for one token address after the other,  *)
(* each call with chain reads that answer or fail.                         *)
(***************************************************************************)
InitTokens ==
  /\ IngestInit({"empty"})
  /\ ListenerInit({EthereumConfig}, {TRUE})
  /\ NormInit({NoEvent})
  /\ resolutions = <<>>
  /\ connectTask = NoConnect
  /\ connectLog = <<>>

TokensNext ==
  \E tokenAddress \in TokenAddresses : \E readOk, nameOk \in BOOLEAN :
    ResolveToken(tokenAddress, readOk, nameOk)

SpecTokens == InitTokens /\ [][TokensNext]_vars

(***************************************************************************)
(* SpecLifecycle: the start() and stop() calls on one object, which is     *)
(* either a DataIngestionService (scenario "fresh") or a                   *)
(* ProtocolEventListener on its own (scenario "listener"), whose chain is  *)
(* quiet: no pool is created and no pool emits a log.                      *)
(***************************************************************************)
InitLifecycle ==
  /\ IngestInit({"fresh", "listener"})
  /\ ListenerInit({MixedBscConfig}, {TRUE})
  /\ NormInit({NoEvent})
  /\ resolutions = <<>>
  /\ connectTask = NoConnect
  /\ connectLog = <<>>

LifecycleNext ==
  \/ IngestNext
  \/ \E k \in 1..MaxStartCalls : start(k)
  \/ \E k \in 1..MaxStartCalls : PopularTokens(k)
  \/ \E k \in 1..MaxStartCalls : PopularListen(k)
  \/ stop

SpecLifecycle == InitLifecycle /\ [][LifecycleNext]_vars

(***************************************************************************)
(* Properties of the ingestion pipeline.                                   *)
(***************************************************************************)
\* where the events of a buffer are
InFlight(flights) == UNION {Range(f.batch) : f \in flights}

Unwritten(f) == {f.batch[i] : i \in (f.done + 1)..Len(f.batch)}

Written(f) == {f.batch[i] : i \in 1..f.done}

\* C1: every event handed to the pipeline is, in every state, in the live buffer,
\* in the batch of a flush in progress, or among the events written to storage;
\* for the StandardizedEvent buffer and for the FactoryEvent buffer.
C1_NoEventLost ==
  /\ 1..evSeen \subseteq Range(eventBuffer) \cup InFlight(evFlights) \cup inserted
  /\ 1..facSeen \subseteq
       Range(factoryEventBuffer) \cup InFlight(facFlights) \cup insertedFactory

\* C1 witness: a flush has failed and put its batch back, and an event has been
\* appended to the live buffer while a size-triggered flush is writing.
C1_Witness ==
  /\ failures > 0
  /\ eventBuffer # <<>>
  /\ \E f \in evFlights : f.by = "size" /\ f.done > 0

\* C2 (as claimed): a batch that a failed flush has put back is at the front of the
\* live buffer, in its order, until the next flush attempt takes its snapshot.
C2_FailedBatchFirst ==
  \A p \in pendingRetry :
    IsPrefix(p[2], IF p[1] = "events" THEN eventBuffer ELSE factoryEventBuffer)

\* C3: while no storage write has failed, the StandardizedEvent buffer is flushed
\* as soon as its length reaches batchSize: the live buffer is shorter than
\* batchSize in every state, a size-triggered flush holds exactly batchSize events
\* and leaves in the live buffer only events that arrived after it, and every event
\* is in exactly one of the live buffer, the unwritten rest of one flush, and
\* storage, so that each event is written once and none twice.
C3_FlushAtBatchSize ==
  failures = 0 =>
    /\ Len(eventBuffer) < batchSize
    /\ \A f \in evFlights :
         f.by = "size" =>
           /\ Len(f.batch) = batchSize
           /\ \A e \in Range(eventBuffer) : e > f.batch[Len(f.batch)]
    /\ Cardinality(Range(eventBuffer)) = Len(eventBuffer)
    /\ Range(eventBuffer) \cap inserted = {}
    /\ \A f \in evFlights :
         /\ Written(f) \subseteq inserted
         /\ Unwritten(f) \cap inserted = {}
         /\ Range(f.batch) \cap Range(eventBuffer) = {}
         /\ \A g \in evFlights : g # f => Range(f.batch) \cap Range(g.batch) = {}
    /\ 1..evSeen = Range(eventBuffer) \cup InFlight(evFlights) \cup inserted

\* C3 witness: the buffer has reached batchSize with no timer firing and no
\* failure, the flush is over, the live buffer is empty and storage holds the
\* batchSize events.
C3_Witness ==
  /\ scenario = "events"
  /\ failures = 0
  /\ timerFires = 0
  /\ evSeen = batchSize
  /\ evFlights = {}
  /\ eventBuffer = <<>>
  /\ inserted = 1..batchSize

\* C7 (as claimed): when no storage write issued before the disconnect has failed,
\* then once stop() has completed and no flush is writing any more, both buffers
\* are empty and every event accepted is in storage.
C7_StopLosesNothing ==
  (stopPc = "done" /\ failures = 0 /\ evFlights = {} /\ facFlights = {}) =>
    /\ eventBuffer = <<>>
    /\ factoryEventBuffer = <<>>
    /\ 1..evSeen \subseteq inserted
    /\ 1..facSeen \subseteq insertedFactory

(***************************************************************************)
(* Properties of the listener.                                             *)
(***************************************************************************)
Entries(m, k) == {i \in DOMAIN m : m[i].key = k}

PoolHandlers(poolAddress) == {s \in poolSubs : s.poolInfo.address = poolAddress}

\* the start() calls made so far
StartCalls == Cardinality({k \in DOMAIN startTasks : startTasks[k].pc # "none"})

\* C4: the pool registry holds at most one PoolInfo per pool address, and exactly
\* one, stored under its own address, for every address startPoolListening() has
\* registered, however many times it registered it.
C4_OnePoolInfoPerAddress ==
  /\ \A i, j \in DOMAIN knownPools : knownPools[i].key = knownPools[j].key => i = j
  /\ \A i \in DOMAIN knownPools : knownPools[i].value.address = knownPools[i].key
  /\ \A a \in DOMAIN registrations : Cardinality(Entries(knownPools, a)) = 1
  /\ MapKeys(knownPools) = DOMAIN registrations

\* a pool that two discoveries have registered
C4_Witness ==
  \E a \in DOMAIN registrations :
    /\ registrations[a] >= 2
    /\ Cardinality(Entries(knownPools, a)) = 1

\* C5: in a run with one start() call, at most one contract has handlers
\* registered for a pool address, also when the pre-seed and a factory event
\* discover the same pool together, so a pool log yields exactly one
\* StandardizedEvent.
C5_OneSubscriptionPerPool ==
  StartCalls <= 1 =>
    /\ \A a \in MapKeys(knownPools) : Cardinality(PoolHandlers(a)) <= 1
    /\ lastRaw.pool # "none" => lastRaw.copies = 1

\* C6: in a run with one start() call, once stop() has torn the listener down no
\* contract has a handler registered, both subscription maps are empty, and
\* nothing is emitted; a discovery that was in progress registers nothing.
C6_StoppedIsSilent ==
  (stopReturned /\ StartCalls <= 1) =>
    /\ factorySubs = {}
    /\ poolSubs = {}
    /\ factoryListeners = <<>>
    /\ poolListeners = <<>>
    /\ ~emittedAfterStop

(***************************************************************************)
(* Properties of the normalization.                                        *)
(***************************************************************************)
Abs(n) == IF n < 0 THEN 0 - n ELSE n

\* C8: for each token of a V3 swap, a negative delta becomes the In amount
\* (magnitude) with Out "0", and a non-negative delta becomes the Out amount with
\* In "0"; the deltas (-1000, 2000) give amount0In "1000", amount0Out "0",
\* amount1In "0", amount1Out "2000".
C8_NegativeIsIn ==
  \A i \in DOMAIN emitted :
    /\ emitted[i].data.amount0In =
         IF rawEvent.amount0 < 0 THEN toString(Abs(rawEvent.amount0)) ELSE <<"0">>
    /\ emitted[i].data.amount0Out =
         IF rawEvent.amount0 < 0 THEN <<"0">> ELSE toString(rawEvent.amount0)
    /\ emitted[i].data.amount1In =
         IF rawEvent.amount1 < 0 THEN toString(Abs(rawEvent.amount1)) ELSE <<"0">>
    /\ emitted[i].data.amount1Out =
         IF rawEvent.amount1 < 0 THEN <<"0">> ELSE toString(rawEvent.amount1)

\* C9 as stated: for both tokens of every V3 swap, exactly one of the In and Out
\* amounts differs from "0", and it is the magnitude of the delta.
C9_ExactlyOneNonzero ==
  \A i \in DOMAIN emitted :
    /\ (emitted[i].data.amount0In # <<"0">>) # (emitted[i].data.amount0Out # <<"0">>)
    /\ toString(Abs(rawEvent.amount0)) \in
         {emitted[i].data.amount0In, emitted[i].data.amount0Out}
    /\ (emitted[i].data.amount1In # <<"0">>) # (emitted[i].data.amount1Out # <<"0">>)
    /\ toString(Abs(rawEvent.amount1)) \in
         {emitted[i].data.amount1In, emitted[i].data.amount1Out}

\* the In and Out amounts of one token for its delta
OneSided(delta, amountIn, amountOut) ==
  IF delta = 0
  THEN amountIn = <<"0">> /\ amountOut = <<"0">>
  ELSE /\ (amountIn # <<"0">>) # (amountOut # <<"0">>)
       /\ (amountIn # <<"0">>) => amountIn = toString(Abs(delta))
       /\ (amountOut # <<"0">>) => amountOut = toString(Abs(delta))

\* C9, amended: for both tokens of every V3 swap, a nonzero delta gives exactly one
\* of the In and Out amounts different from "0", equal to the magnitude of the
\* delta; a zero delta gives "0" for both.
C9_OneSidedUnlessZero ==
  \A i \in DOMAIN emitted :
    /\ OneSided(rawEvent.amount0, emitted[i].data.amount0In, emitted[i].data.amount0Out)
    /\ OneSided(rawEvent.amount1, emitted[i].data.amount1In, emitted[i].data.amount1Out)

\* a normalized swap with a negative delta and a zero delta
C9_Witness ==
  /\ emitted # <<>>
  /\ rawEvent.amount0 = 0 - 1000
  /\ rawEvent.amount1 = 0
  /\ emitted[1].data.amount0Out = <<"1", "0", "0", "0">>
  /\ emitted[1].data.amount1In = <<"0">>
  /\ emitted[1].data.amount1Out = <<"0">>

\* C10: the id of the StandardizedEvent of a raw log that carries a transaction
\* hash and a log index, the log index 0 included, is made of that hash, that
\* index and the event type, so two normalizations of the log give the same id.
C10_IdFromHashAndIndex ==
  (Truthy(rawEvent.transactionHash) /\ rawEvent.logIndex.t = "number") =>
    /\ \A i \in DOMAIN emitted :
         emitted[i].id = <<rawEvent.transactionHash, rawEvent.logIndex, "swap">>
    /\ \A i, j \in DOMAIN emitted : emitted[i].id = emitted[j].id

(***************************************************************************)
(* Token resolution.                                                       *)
(***************************************************************************)
\* C17: when the chain reads of a token fail, the resolution of a token of the
\* fallback table is the table's entry and the resolution of any other token is
\* the default {symbol "UNKNOWN", decimals 18, name "Unknown Token"} for that
\* address; every call ends with a TokenInfo for the address it was given.
C17_ResolutionIsTotal ==
  \A i \in DOMAIN resolutions :
    LET r == resolutions[i]
    IN /\ r.info.address = r.tokenAddress
       /\ ~r.readOk =>
            IF r.tokenAddress \in knownTokens
            THEN r.info = getFallbackTokenInfo(r.tokenAddress)
            ELSE r.info = [address |-> r.tokenAddress, symbol |-> "UNKNOWN",
                           decimals |-> 18, name |-> "Unknown Token"]

\* the reads failed for a token of the table and for a token that is not in it
C17_Witness ==
  /\ Len(resolutions) >= 2
  /\ resolutions[1] = [tokenAddress |-> "WETH", readOk |-> FALSE, nameOk |-> FALSE,
                       info |-> [address |-> "WETH", symbol |-> "WETH", decimals |-> 18,
                                 name |-> "Wrapped Ether"]]
  /\ resolutions[2] = [tokenAddress |-> "TKN", readOk |-> FALSE, nameOk |-> TRUE,
                       info |-> [address |-> "TKN", symbol |-> "UNKNOWN", decimals |-> 18,
                                 name |-> "Unknown Token"]]

\* C27: when symbol() and decimals() answer and name() fails, getTokenInfo returns
\* the chain's symbol and decimals with the name "Unknown": neither the entry of the
\* fallback table nor the default {"UNKNOWN", 18, "Unknown Token"}.
C27_NameFailureIsNotFatal ==
  \A i \in DOMAIN resolutions :
    LET r == resolutions[i]
    IN (r.readOk /\ ~r.nameOk) =>
         /\ r.info = [address |-> r.tokenAddress,
                      symbol |-> OnChainTokenInfo(r.tokenAddress).symbol,
                      decimals |-> OnChainTokenInfo(r.tokenAddress).decimals,
                      name |-> "Unknown"]
         /\ r.tokenAddress \in knownTokens => r.info # getFallbackTokenInfo(r.tokenAddress)
         /\ r.info.symbol # "UNKNOWN"

\* name() failed alone for a token of the table and for a token that is not in it
C27_Witness ==
  /\ Len(resolutions) >= 2
  /\ resolutions[1].tokenAddress = "USDC" /\ resolutions[1].readOk /\ ~resolutions[1].nameOk
  /\ resolutions[1].info.decimals = 6 /\ resolutions[1].info.name = "Unknown"
  /\ resolutions[2].tokenAddress = "TKN" /\ resolutions[2].readOk /\ ~resolutions[2].nameOk
  /\ resolutions[2].info.symbol = "TKN" /\ resolutions[2].info.name = "Unknown"

\* C18: every resolved token is in tokenCache under its address, and a later
\* resolution of the same address returns the same TokenInfo.
C18_ResolutionsCached ==
  /\ \A i \in DOMAIN resolutions : resolutions[i].tokenAddress \in tokenCache
  /\ \A i, j \in DOMAIN resolutions :
       resolutions[i].tokenAddress = resolutions[j].tokenAddress =>
         resolutions[i].info = resolutions[j].info

(***************************************************************************)
(* Arrival order.  Events are numbered in the order the pool subscription  *)
(* hands them to handleStandardizedEvent.                                  *)
(***************************************************************************)
\* the events insertEvent has been called for, in a run where no write has failed
\* and the gateway is still connected
Issued ==
  inserted \cup UNION {{f.batch[i] : i \in 1..(f.done + 1)} : f \in evFlights}

\* C16: two events of one subscription are never reordered: they stand in the
\* live buffer in arrival order, and the first storage write of the earlier one
\* is issued before the first storage write of the later one.
C16_ArrivalOrderKept ==
  /\ \A i, j \in DOMAIN eventBuffer : i < j => eventBuffer[i] < eventBuffer[j]
  /\ (failures = 0 /\ isConnected) =>
       \A e2 \in Issued : \A e1 \in 1..(e2 - 1) : e1 \in Issued

(***************************************************************************)
(* The start() and stop() calls.                                           *)
(***************************************************************************)
\* what the listener holds: flag, subscriptions, maps, registry, cache, work in
\* progress
listenerState == <<isListening, factoryListeners, factorySubs, poolListeners, poolSubs,
                   knownPools, tokenCache, discoveries>>

\* what the service holds: flags, timer, listeners, buffers, flushes, storage,
\* notifications
serviceState == <<isRunning, flushTimer, listenersUp, isConnected, eventBuffer,
                  factoryEventBuffer, evFlights, facFlights, inserted, insertedFactory,
                  notified>>

\* C11: a start() call on a listener, or on a service, that is already running
\* ends with an error and leaves the running flag, the subscriptions, the pool
\* registry and the buffers as they were.
C11_StartWhileRunningFails ==
  [][ /\ \A k \in DOMAIN startTasks :
           (isListening /\ startTasks[k].pc = "none" /\ startTasks'[k].pc # "none") =>
             /\ startTasks'[k].pc = "error"
             /\ UNCHANGED listenerState
      /\ (isRunning /\ svcStartCalls' # svcStartCalls) =>
           /\ lastCall' = [op |-> "start", result |-> "error"]
           /\ UNCHANGED <<serviceState, startPc, stopPc>>
    ]_vars

\* a running listener with subscriptions and registered pools has refused a start()
C11_Witness ==
  /\ isListening
  /\ \E k \in DOMAIN startTasks : startTasks[k].pc = "error"
  /\ factorySubs # {}
  /\ poolSubs # {}
  /\ knownPools # <<>>

\* C12: a stop() call on a listener, or on a service, that is not running
\* returns without an error and changes nothing; a stop() call on a running
\* listener leaves it not running, so a second stop() in a row changes nothing.
C12_StopIsIdempotent ==
  [][ /\ (stopCalls' # stopCalls) =>
           /\ ~isListening'
           /\ ~isListening => UNCHANGED <<listenerState, startTasks, stopReturned>>
      /\ (svcStopCalls' # svcStopCalls /\ ~isRunning) =>
           /\ lastCall' = [op |-> "stop", result |-> "returned"]
           /\ UNCHANGED <<serviceState, startPc, stopPc>>
    ]_vars

\* a service that was running has been stopped, and stop() was called once more
C12_Witness ==
  /\ svcStopCalls = 2
  /\ lastCall = [op |-> "stop", result |-> "returned"]
  /\ stopPc = "done"
  /\ ~isRunning
  /\ <<"stopped", 0>> \in DOMAIN notified
  /\ notified[<<"stopped", 0>>] = 1

Accepted ==
  {<<"event", e>> : e \in (EvBase + 1)..evSeen}
    \cup {<<"factoryEvent", e>> : e \in (FacBase + 1)..facSeen}

ChainEntries(chainId) ==
  CASE chainId = 1 -> ContractAddresses("ethereum")
    [] chainId = 56 -> ContractAddresses("bsc")
    [] OTHER -> {}

\* C19: once start() has set up the factory listeners (and until stop()), the
\* protocols with a factory subscription are the configured protocols that have
\* an entry for the configured chain: a configured protocol without an entry is
\* skipped, the others are subscribed.
C19_UnsupportedProtocolSkipped ==
  (stopCalls = 0 /\ \E k \in DOMAIN startTasks : startTasks[k].pc \notin {"none", "error"}) =>
    /\ MapKeys(factoryListeners) = Range(config.protocols) \cap ChainEntries(config.chainId)
    /\ \A protocol \in MapKeys(factoryListeners) :
         \E sub \in factorySubs : sub.protocol = protocol

(***************************************************************************)
(* Pool discovery.                                                         *)
(***************************************************************************)
\* the pools of the hardcoded table, which exist before the listener is started
TablePools == {popularPools[i].address : i \in DOMAIN popularPools}

C14_BufferedEventuallyWritten ==
  /\ \A e \in 1..MaxLiveEvents : (e \in Range(eventBuffer)) ~> (e \in inserted)
  /\ \A e \in 1..MaxLiveFactoryEvents :
       (e \in Range(factoryEventBuffer)) ~> (e \in insertedFactory)

\* all events are written, after failed writes, by timer flushes of buffers far
\* below the batch size
C14_Witness ==
  /\ scenario = "live"
  /\ failures = MaxFailures
  /\ evSeen = MaxLiveEvents /\ inserted = 1..MaxLiveEvents
  /\ facSeen = MaxLiveFactoryEvents /\ insertedFactory = 1..MaxLiveFactoryEvents
  /\ eventBuffer = <<>> /\ factoryEventBuffer = <<>>
  /\ \A f \in evFlights \cup facFlights : f.by = "timer"

(***************************************************************************)
(* One flush of a buffer at a time.                                        *)
(***************************************************************************)
\* the flushes that take their batch in this step
Started(flights, flightsNext) == {f \in flightsNext \ flights : f.done = 0}

\* C29: a flush of the event buffer (of the factory-event buffer) triggered by the
\* size threshold or by the timer is never started while an earlier flush of that
\* buffer is still writing its batch.
C29_OneFlushPerBuffer ==
  [][/\ \A f \in Started(evFlights, evFlights') :
          f.by \in {"size", "timer"} => evFlights = {}
     /\ \A f \in Started(facFlights, facFlights') :
          f.by \in {"size", "timer"} => facFlights = {}]_vars

(***************************************************************************)
(* Factory subscriptions under interleaved start() and stop() calls.       *)
(***************************************************************************)
\* the contracts with a creation handler registered for the protocol
FactoryHandlers(protocol) == {s \in factorySubs : s.protocol = protocol}

\* C30: whatever the interleaving of start() and stop() calls, at most one
\* factory contract has a creation handler registered per protocol, and every
\* contract with a creation handler is a value of factoryListeners, so that the
\* next stop() removes its handler.
C30_FactorySubscriptionsTracked ==
  /\ \A protocol \in ProtocolType : Cardinality(FactoryHandlers(protocol)) <= 1
  /\ \A s \in factorySubs : s.contract \in MapValues(factoryListeners)

(***************************************************************************)
(* Discovery: Uninitialized -> FactorySubscribed -> PoolAttached.          *)
(***************************************************************************)
\* C25: handlers are registered on a pool contract of a protocol only while the
\* factory subscription of that protocol is established (the protocol is a key of
\* factoryListeners): never for a protocol that is not configured, has no factory
\* on the chain or whose factory subscription failed.
C25_PoolAttachedAfterFactory ==
  [][\A s \in poolSubs' \ poolSubs : MapHas(factoryListeners, s.poolInfo.protocol)]_vars

(***************************************************************************)
(* Duplicate discovery.                                                    *)
(***************************************************************************)
\* the start() calls whose pre-seed passes the duplicate check of
\* startPoolListening() in this step, with the pool they go on to register
PreSeedProceeds ==
  {popularPools[startTasks[k].i].address :
     k \in {j \in DOMAIN startTasks :
              startTasks[j].pc = "tokens" /\ startTasks'[j].pc = "resolve"}}

\* C24: a discovery (creation log or pre-seed) of a pool address that has a
\* PoolInfo in knownPools is a no-op: startPoolListening() returns at its duplicate
\* check, so the PoolInfo is not stored again and no handlers are registered; also
\* after a stop() followed by a new start().
C24_KnownPoolIsNoOp ==
  [][/\ \A a \in PreSeedProceeds : ~MapHas(knownPools, a)
     /\ \A d \in discoveries' \ discoveries : ~MapHas(knownPools, d.pool)]_vars

(***************************************************************************)
(* StandardizedEvents and the pool registry.                               *)
(***************************************************************************)
\* lines 483-485: the pool fields a handler copies from its poolInfo
PoolFields(poolInfo) ==
  [poolAddress |-> poolInfo.address, token0 |-> poolInfo.token0, token1 |-> poolInfo.token1]

\* the StandardizedEvents emitted in this step, when the chain delivers a pool log
EmittedNow ==
  IF rawDeliveries' = rawDeliveries THEN {}
  ELSE {PoolFields(s.poolInfo) : s \in PoolHandlers(lastRaw'.pool)}

\* C26: every emitted StandardizedEvent has a poolAddress that is a key of
\* knownPools, and its token0 and token1 are those of the PoolInfo knownPools holds
\* for that address when the event is emitted.
C26_EventMatchesRegistry ==
  [][\A ev \in EmittedNow :
       \E i \in DOMAIN knownPools :
         /\ knownPools[i].key = ev.poolAddress
         /\ knownPools[i].value.token0 = ev.token0
         /\ knownPools[i].value.token1 = ev.token1]_vars

(***************************************************************************)
(* Properties of the pool log handlers.                                    *)
(***************************************************************************)
\* the first of the candidate locations that carries a value, else the placeholder
RECURSIVE FirstCarried(_, _)
FirstCarried(candidates, placeholder) ==
  IF candidates = <<>> THEN placeholder
  ELSE IF Head(candidates) # Undefined THEN Head(candidates)
  ELSE FirstCarried(Tail(candidates), placeholder)

\* C21: transactionHash, logIndex and blockNumber of every StandardizedEvent are
\* taken from the first candidate location of the raw event that carries the field
\* (transactionHash, hash, tx.hash; logIndex, index, log.index; blockNumber, block,
\* log.blockNumber); the placeholder (tx-<now>, <now>, 0) appears only when no
\* candidate location carries the field.
C21_FirstCarriedLocation ==
  \A i \in DOMAIN emitted :
    /\ emitted[i].transactionHash =
         FirstCarried(<<rawEvent.transactionHash, rawEvent.hash, rawEvent.txNestedHash>>,
                      TxNow(emitted[i].timestamp))
    /\ emitted[i].logIndex =
         FirstCarried(<<rawEvent.logIndex, rawEvent.index, rawEvent.logNestedIndex>>,
                      Num(emitted[i].timestamp))
    /\ emitted[i].blockNumber =
         FirstCarried(<<rawEvent.blockNumber, rawEvent.block,
                        rawEvent.logNestedBlockNumber>>, Num(0))

\* str is the decimal string of the non-negative bigint b, digit for digit
DecimalOf(str, b) ==
  /\ ~b.neg
  /\ Len(str) = Len(b.digits)
  /\ \A k \in DOMAIN str : str[k] = <<"0", "1", "2", "3", "4", "5", "6", "7", "8", "9">>[b.digits[k] + 1]

\* C22: a V2 Swap(sender, amount0In, amount1In, amount0Out, amount1Out, to) log
\* delivered to its handler yields one StandardizedEvent, of eventType swap, whose
\* four amounts are the decimal strings of the four amounts of the log in the same
\* positions; Swap(sender, 100, 0, 0, 95, to) gives amount0In "100" and amount1Out
\* "95".
C22_V2SwapPassThrough ==
  /\ [](rawEvent.name = "Swap" /\ IsV2(rawEvent.protocol) =>
          \A i \in DOMAIN emitted :
            /\ emitted[i].eventType = "swap"
            /\ emitted[i].data.type = "swap"
            /\ DecimalOf(emitted[i].data.amount0In, rawEvent.args.amount0In)
            /\ DecimalOf(emitted[i].data.amount1In, rawEvent.args.amount1In)
            /\ DecimalOf(emitted[i].data.amount0Out, rawEvent.args.amount0Out)
            /\ DecimalOf(emitted[i].data.amount1Out, rawEvent.args.amount1Out)
            /\ rawEvent.args = ExampleSwap =>
                 /\ emitted[i].data.amount0In = <<"1", "0", "0">>
                 /\ emitted[i].data.amount1In = <<"0">>
                 /\ emitted[i].data.amount0Out = <<"0">>
                 /\ emitted[i].data.amount1Out = <<"9", "5">>)
  /\ [][Len(emitted') <= Len(emitted) + 1]_vars

\* the example Swap of a V2 pool has been delivered and normalized
C22_Witness ==
  /\ rawEvent.name = "Swap"
  /\ rawEvent.protocol = "pancakeswap-v2"
  /\ rawEvent.args = ExampleSwap
  /\ Len(emitted) = 1
  /\ emitted[1].data.amount0In = <<"1", "0", "0">>
  /\ emitted[1].data.amount1Out = <<"9", "5">>

\* C23: every mint or burn event normalized from a pool of a V2 protocol reports
\* liquidity "0" and carries no tick range, whatever its amounts; every mint or
\* burn event normalized from a V3 pool reports the amount (the liquidity) of the
\* log together with its tickLower and tickUpper.
C23_LiquidityAndTicks ==
  rawEvent.name \in {"Mint", "Burn"} =>
    \A i \in DOMAIN emitted :
      /\ emitted[i].eventType = (IF rawEvent.name = "Mint" THEN "mint" ELSE "burn")
      /\ emitted[i].data.type = emitted[i].eventType
      /\ IF IsV2(rawEvent.protocol)
            THEN /\ emitted[i].data.liquidity = <<"0">>
                 /\ {"tickLower", "tickUpper"} \cap DOMAIN emitted[i].data = {}
            ELSE /\ DecimalOf(emitted[i].data.liquidity, rawEvent.args.amount)
                 /\ emitted[i].data.tickLower = rawEvent.args.tickLower
                 /\ emitted[i].data.tickUpper = rawEvent.args.tickUpper

\* a V2 Mint with nonzero amounts has been normalized with liquidity "0"
C23_Witness ==
  /\ rawEvent.protocol = "uniswap-v2"
  /\ rawEvent.name = "Mint"
  /\ rawEvent.args.amount0 = Big(<<1, 0, 0>>)
  /\ rawEvent.args.amount1 = Unsafe
  /\ Len(emitted) = 1
  /\ emitted[1].data.liquidity = <<"0">>

\* a V3 Burn with nonzero liquidity and a tick range has been normalized
V3BurnNormalized ==
  /\ rawEvent.protocol = "uniswap-v3"
  /\ rawEvent.name = "Burn"
  /\ rawEvent.args.amount = Unsafe
  /\ Len(emitted) = 1
  /\ emitted[1].data.tickLower = Minus(<<6, 0>>)
  /\ emitted[1].data.tickUpper = Big(<<6, 0>>)

\* the arguments of a pool log that are raw token amounts, reserves or prices
AmountFields ==
  {"amount0In", "amount1In", "amount0Out", "amount1Out", "amount0", "amount1",
   "reserve0", "reserve1", "sqrtPriceX96"}

\* C28: every raw token amount, reserve and price of a pool log is carried as its
\* decimal string in the StandardizedEvent and, between quotes, in the event_data
\* of the row written to storage: the same digits, none converted to a number, also
\* for a value beyond the safe-integer range.
C28_DecimalStringsEndToEnd ==
  \A f \in AmountFields \cap DOMAIN rawEvent.args :
    /\ \A i \in DOMAIN emitted : DecimalOf(emitted[i].data[f], rawEvent.args[f])
    /\ \A i \in DOMAIN rows :
         /\ Len(rows[i].event_data[f]) = Len(rawEvent.args[f].digits) + 2
         /\ rows[i].event_data[f][1] = "\""
         /\ rows[i].event_data[f][Len(rows[i].event_data[f])] = "\""
         /\ DecimalOf(SubSeq(rows[i].event_data[f], 2, Len(rows[i].event_data[f]) - 1),
                      rawEvent.args[f])

\* a Sync log whose reserve0 is 9007199254740993, beyond the safe-integer range,
\* has been normalized and its row written with all sixteen digits
C28_Witness ==
  /\ rawEvent.name = "Sync"
  /\ rawEvent.args.reserve0 = Unsafe
  /\ Exceeds(rawEvent.args.reserve0, MaxSafeInteger)
  /\ Len(rows) >= 1
  /\ rows[1].event_data.reserve0 =
       <<"\"", "9", "0", "0", "7", "1", "9", "9", "2", "5", "4", "7", "4", "0", "9", "9", "3", "\"">>

\* the protocols the listener is configured with that have an entry for its chain
ConfiguredProtocols == Range(config.protocols) \cap ChainEntries(config.chainId)

\* C31: every PoolInfo in the registry and every attached pool subscription belongs
\* to a protocol that is listed in the configured protocols and has an entry for the
\* configured chain; the pre-seed adds no pool of another protocol.
C31_PoolsOfConfiguredProtocols ==
  /\ \A poolInfo \in MapValues(knownPools) : poolInfo.protocol \in ConfiguredProtocols
  /\ \A s \in poolSubs : s.poolInfo.protocol \in ConfiguredProtocols

(***************************************************************************)
(* The accessors of the pool registry.                                     *)
(***************************************************************************)
\* mutant of getKnownPools: only the pools that have a contract in poolListeners
getKnownPoolsAttached ==
  [i \in DOMAIN SelectSeq(knownPools, LAMBDA en : MapHas(poolListeners, en.key)) |->
     SelectSeq(knownPools, LAMBDA en : MapHas(poolListeners, en.key))[i].value]

\* getKnownPools(): Array.from(this.knownPools.values())
getKnownPools == [i \in DOMAIN knownPools |-> knownPools[i].value]

\* getPoolInfo(poolAddress): this.knownPools.get(poolAddress)
getPoolInfo(poolAddress) ==
  IF MapHas(knownPools, poolAddress)
  THEN knownPools[CHOOSE i \in DOMAIN knownPools : knownPools[i].key = poolAddress].value
  ELSE Undefined

\* the pool addresses of the model
PoolAddresses == {NewPool} \cup {popularPools[i].address : i \in DOMAIN popularPools}

AttachedIsRegistered ==
  /\ \A a \in MapKeys(poolListeners) : MapHas(knownPools, a)
  /\ \A s \in poolSubs : MapHas(knownPools, s.poolInfo.address)

\* C33: in every reachable state each pool address with an attached pool
\* subscription has a PoolInfo in the registry, and while the listener is not
\* running after a stop() that has completed (and before a new start()) the
\* factory-listener map and the pool-listener map are both empty.
C33_AttachedRegisteredAndStoppedEmpty ==
  /\ AttachedIsRegistered
  /\ (stopReturned /\ ~isListening) =>
       /\ factoryListeners = <<>>
       /\ poolListeners = <<>>

\* C34: once stop() has disconnected the storage gateway no flush is still
\* writing: every flushEvents() / flushFactoryEvents() call that was in progress
\* when stop() was called has finished before the disconnect, so that no
\* insertEvent or insertFactoryEvent call follows it.
C34_FlushesFinishedBeforeDisconnect ==
  (stopPc = "done" /\ ~isConnected) => (evFlights = {} /\ facFlights = {})

\* how often 'started' has been emitted
StartedCount ==
  IF <<"started", 0>> \in DOMAIN notified THEN notified[<<"started", 0>>] ELSE 0

\* C35: the step of start() that sets the running flag emits 'started' once, and
\* after it storage is connected, the chain listeners are started and the flush
\* timer is active; no other step sets the flag or emits 'started'.  A start()
\* that passed its guard and fails ends with the error, with the running flag
\* still false, no flush timer started and no 'started' emitted.
C35_StartedOnlyWhenReady ==
  [][ /\ (isRunning' /\ ~isRunning) \/ StartedCount' # StartedCount =>
           /\ ~isRunning /\ isRunning'
           /\ StartedCount' = StartedCount + 1
           /\ isConnected' /\ listenersUp' /\ flushTimer'
           /\ lastCall' = [op |-> "start", result |-> "started"]
      /\ (startPc # "idle" /\ lastCall' = [op |-> "start", result |-> "error"]) =>
           /\ startPc' = "idle"
           /\ ~isRunning /\ ~isRunning'
           /\ ~flushTimer'
           /\ StartedCount' = StartedCount
    ]_vars

\* a first start() has failed and left the service not running; the second one
\* has started it
C35_Witness ==
  /\ scenario = "fresh"
  /\ svcStartCalls = 2
  /\ svcStopCalls = 0
  /\ lastCall = [op |-> "start", result |-> "started"]
  /\ isRunning /\ isConnected /\ listenersUp /\ flushTimer
  /\ StartedCount = 1

\* how often 'stopped' has been emitted
StoppedCount ==
  IF <<"stopped", 0>> \in DOMAIN notified THEN notified[<<"stopped", 0>>] ELSE 0

\* C36: whatever the interleaving of the stop() calls on a running service, a
\* second one made while the first is flushing included, 'stopped' is emitted and
\* the storage gateway is disconnected at most once per 'started', and exactly
\* once when the stop() calls have completed.
C36_StoppedOncePerStarted ==
  /\ StoppedCount <= StartedCount
  /\ (stopPc = "done" /\ stopPcB \in {"idle", "done"}) => StoppedCount = StartedCount

\* C37: a connect() call sends at most 5 pings and then ends.  It returns at its
\* first answered ping, with the gateway marked connected; after 5 rejected pings
\* in a row it throws, and it has not touched the connected flag: a gateway that
\* was not connected when connect() was called is still not connected.
C37_ConnectGivesUpAfterFivePings ==
  /\ [](/\ connectTask.pings <= 5
        /\ connectTask.pc = "returned" =>
             /\ isConnected
             /\ connectTask.pings = connectTask.retryCount + 1
        /\ connectTask.pc = "thrown" =>
             /\ connectTask.pings = 5
             /\ connectTask.retryCount = 5
             /\ isConnected = connectTask.connectedBefore
        /\ connectTask.pc \in {"ping", "pause"} =>
             /\ connectTask.retryCount < 5
             /\ isConnected = connectTask.connectedBefore
        /\ \A i \in DOMAIN connectLog :
             /\ connectLog[i].pings \in 1..5
             /\ connectLog[i].result = "thrown" => connectLog[i].pings = 5)
  /\ (connectTask.pc \in {"ping", "pause"}) ~> (connectTask.pc \in {"returned", "thrown"})

\* a first connect() call has thrown after 5 rejected pings and left the gateway
\* not connected; a second one has returned at its third ping
C37_Witness ==
  /\ Len(connectLog) = 2
  /\ connectLog[1] = [result |-> "thrown", pings |-> 5]
  /\ connectLog[2] = [result |-> "returned", pings |-> 3]
  /\ connectTask.pc = "returned"
  /\ ~connectTask.connectedBefore
  /\ isConnected

\* C38: a pool of the pre-seed list is registered and subscribed only with both
\* of its token addresses, each the answer of the pool's read function or the entry
\* of the fallback table; a failed read raises no error in start(), and when the
\* pre-seed is over every pool of the list whose two addresses could be obtained
\* has been processed and is in the registry.
C38_PreSeedNeedsBothTokens ==
  /\ [](/\ \A s \in poolSubs :
             s.contract.by = "start" =>
               /\ s.poolInfo.token0.address \in
                    {Token0Of(s.poolInfo.address), getFallbackToken0(s.poolInfo.address)}
                      \ {NoToken}
               /\ s.poolInfo.token1.address \in
                    {Token1Of(s.poolInfo.address), getFallbackToken1(s.poolInfo.address)}
                      \ {NoToken}
               /\ MapHas(knownPools, s.poolInfo.address)
        /\ \A k \in DOMAIN startTasks :
             startTasks[k].pc = "done" =>
               \A i \in DOMAIN popularPools :
                 (chainReadsOk \/ popularPools[i].address \in {"0xB4e1", "0x7213"}) =>
                   MapHas(knownPools, popularPools[i].address))
  /\ [][\A k \in DOMAIN startTasks :
          startTasks[k].pc \in {"tokens", "resolve"} =>
            startTasks'[k].pc \in {"tokens", "resolve", "done"}]_vars

\* the reads of the pools' token0() and token1() fail; start() has completed and
\* every pool of the list is registered and subscribed with the addresses of the
\* fallback table
C38_Witness ==
  /\ ~chainReadsOk
  /\ stopCalls = 0
  /\ startTasks[1].pc = "done"
  /\ startTasks[2].pc = "none"
  /\ \A i \in DOMAIN popularPools :
       /\ MapHas(knownPools, popularPools[i].address)
       /\ \E s \in poolSubs :
            /\ s.contract = PopularContract(1, i)
            /\ s.poolInfo.token0.address = getFallbackToken0(popularPools[i].address)
            /\ s.poolInfo.token1.address = getFallbackToken1(popularPools[i].address)

====
